---------------------------- MODULE Spec2Model ----------------------------
(***************************************************************************)
(* A model of the abuse-monitoring lambdas of muckers/squrl                *)
(* (terraform/modules/monitoring/templates):                               *)
(*   realtime_abuse_detector.py  - scoring, windowed tracking, thresholds  *)
(*   abuse_response_handler.py   - response planner / executor             *)
(*   ip_reputation_checker.py    - read-through reputation cache           *)
(* Each lambda is its own program; each has its own specification here     *)
(* (SpecScore, Spec, SpecOrch, SpecRep) over the shared variables.         *)
(*                                                                         *)
(* Python strings are sequences of one-character strings, so that lower(), *)
(* startswith(), "in" and len() are computed and not assumed.  A Python    *)
(* value that may be None is a record [type, s].  Time is in seconds.      *)
(***************************************************************************)
EXTENDS Integers, Sequences, FiniteSets, TLC

VARIABLES
    sc_event,       \* scoring: the event handed to the handler (a dict)
    sc_result,      \* scoring: what calculate_abuse_score did with it
    now,            \* datetime.utcnow(), in seconds
    abuse_table,    \* the DynamoDB tracking table: key -> item
    inv,            \* the running invocations of the detector's handler
    started,        \* how many invocations have been started
    applied,        \* history: per key, the update_item calls applied to it
    sns_alerts,     \* sns.publish calls of send_abuse_alert
    metrics_published, \* cloudwatch.put_metric_data calls
    reputation_table,  \* the DynamoDB reputation cache: ip_address -> item
    rep,            \* the running invocations of the reputation checker
    rep_started,    \* how many reputation lookups have been started
    waf_configured, \* the response handler's WAF_WEB_ACL_NAME is not empty
    orch,           \* the running invocation of the response handler
    orch_started,   \* how many response runs have been started
    pf_call,        \* pure functions: the call made, with its arguments
    pf_result,      \* pure functions: what the call returned
    lq,             \* the running Logs Insights query and the loop polling it
    lq_started      \* how many log queries have been started

vars == <<sc_event, sc_result, now, abuse_table, inv, started, applied,
          sns_alerts, metrics_published, reputation_table, rep, rep_started,
          waf_configured, orch, orch_started, pf_call, pf_result, lq,
          lq_started>>

scoreVars == <<sc_event, sc_result>>
ingestVars == <<abuse_table, inv, started, applied, sns_alerts,
                metrics_published>>
repVars == <<reputation_table, rep, rep_started>>
orchVars == <<waf_configured, orch, orch_started>>
pureVars == <<pf_call, pf_result>>
queryVars == <<lq, lq_started>>

(***************************************************************************)
(* Python built-ins on strings                                             *)
(***************************************************************************)
PyStr(s) == [type |-> "str", s |-> s]
PyNone == [type |-> "NoneType", s |-> <<>>]

\* dict.get(key) / dict.get(key, default): a missing key gives the default
EventGet(e, k, default) == IF k \in DOMAIN e THEN e[k] ELSE default

\* truthiness of an Optional[str]: None and '' are falsy
Truthy(v) == v.type = "str" /\ Len(v.s) > 0

LowerChar(c) ==
    CASE c = "A" -> "a" [] c = "B" -> "b" [] c = "C" -> "c" [] c = "D" -> "d"
      [] c = "E" -> "e" [] c = "F" -> "f" [] c = "G" -> "g" [] c = "H" -> "h"
      [] c = "I" -> "i" [] c = "J" -> "j" [] c = "K" -> "k" [] c = "L" -> "l"
      [] c = "M" -> "m" [] c = "N" -> "n" [] c = "O" -> "o" [] c = "P" -> "p"
      [] c = "Q" -> "q" [] c = "R" -> "r" [] c = "S" -> "s" [] c = "T" -> "t"
      [] c = "U" -> "u" [] c = "V" -> "v" [] c = "W" -> "w" [] c = "X" -> "x"
      [] c = "Y" -> "y" [] c = "Z" -> "z" [] OTHER -> c

\* str.lower()
Lower(s) == [i \in 1..Len(s) |-> LowerChar(s[i])]

\* str.startswith(prefix)
StartsWith(s, prefix) ==
    Len(prefix) <= Len(s) /\ SubSeq(s, 1, Len(prefix)) = prefix

\* needle in s  (substring test)
Contains(needle, s) ==
    \E i \in 1..(Len(s) - Len(needle) + 1) :
        SubSeq(s, i, i + Len(needle) - 1) = needle

\* an ISO-8601 timestamp string: the second it names and how it ends.
\* datetime.utcnow().isoformat() ends with no offset
Iso(t) == [t |-> t, tz |-> ""]
IsoZ(t) == [t |-> t, tz |-> "Z"]
IsoUtc(t) == [t |-> t, tz |-> "+00:00"]

PyMin(a, b) == IF a <= b THEN a ELSE b
PyMax(a, b) == IF a >= b THEN a ELSE b

(***************************************************************************)
(* Bounds, and the state of each lambda before it is invoked               *)
(***************************************************************************)
MaxInvocations == 2     \* handler invocations that run at the same time
MaxEvents == 2          \* invocations started in one behaviour

Invocations == 1..MaxInvocations

MaxLookups == 2         \* lookups started in one behaviour
MaxCheckers == 2        \* handler invocations that run at the same time

Checkers == 1..MaxCheckers

EmptyTable == [k \in {} |-> 0]

IdleInvocation ==
    [pc |-> "idle", event |-> [user_agent |-> PyStr(<<>>)], timestamp |-> Iso(0),
     abuse_score |-> 0, ttl |-> 0, check_now |-> 0, should_alert |-> FALSE, statusCode |-> 0]

IngestIdle ==
    /\ abuse_table = EmptyTable
    /\ inv = [p \in Invocations |-> IdleInvocation]
    /\ started = 0
    /\ applied = EmptyTable
    /\ sns_alerts = 0
    /\ metrics_published = 0

IdleChecker ==
    [pc |-> "idle", ip_address |-> <<>>, cache |-> "", seen_ttl |-> 0,
     read_at |-> 0, source |-> "", cold |-> FALSE, concurrent |-> FALSE,
     reputation |-> [cached_at |-> 0], statusCode |-> 0]

RepIdle ==
    /\ reputation_table = EmptyTable
    /\ rep = [c \in Checkers |-> IdleChecker]
    /\ rep_started = 0

MaxRuns == 2            \* response runs started in one behaviour

\* execute_response_actions lines 117-122: the results of a run that has
\* executed nothing yet
NoResults ==
    [successful_actions |-> <<>>, failed_actions |-> <<>>,
     ips_blocked |-> <<>>, notifications_sent |-> 0]

\* attempted and published are history: the action types the loop has
\* visited, and the sns.publish calls of this run
IdleRun ==
    [pc |-> "idle", alarm_name |-> PyStr(<<>>), alarm_state |-> PyStr(<<>>),
     actions |-> <<>>, i |-> 0, results |-> NoResults, attempted |-> <<>>,
     published |-> 0, statusCode |-> 0]

OrchIdle ==
    /\ waf_configured = FALSE
    /\ orch = IdleRun
    /\ orch_started = 0

\* no pure function has been called
PureIdle ==
    /\ pf_call = [fn |-> "none"]
    /\ pf_result = [fn |-> "none"]

\* a log query that has not been started: no function is running, the service
\* holds no query
IdleQuery ==
    [fn |-> "none", pc |-> "idle", service |-> "none", rows |-> <<>>,
     attempts |-> 0, polls |-> 0, status |-> "none", result |-> <<>>]

QueryIdle ==
    /\ lq = IdleQuery
    /\ lq_started = 0

\* the scoring harness at rest (the other specifications leave it alone)
ScoreIdle ==
    /\ sc_event = [user_agent |-> PyStr(<<>>)]
    /\ sc_result = [state |-> "idle", score |-> 0]

\* the clock when a lambda starts with empty tables
Clock0 == now = 0

(***************************************************************************)
(* realtime_abuse_detector.py: calculate_abuse_score                       *)
(***************************************************************************)
\* suspicious_agents = ['bot', 'crawler', 'spider', 'scraper', 'scanner']
suspicious_agents ==
    << <<"b", "o", "t">>,
       <<"c", "r", "a", "w", "l", "e", "r">>,
       <<"s", "p", "i", "d", "e", "r">>,
       <<"s", "c", "r", "a", "p", "e", "r">>,
       <<"s", "c", "a", "n", "n", "e", "r">> >>

\* the same loop with the break lost: every matching agent adds 4
RECURSIVE AgentLoopNoBreak(_, _)
AgentLoopNoBreak(i, user_agent_lower) ==
    IF i > Len(suspicious_agents) THEN 0
    ELSE (IF Contains(suspicious_agents[i], user_agent_lower) THEN 4 ELSE 0)
         + AgentLoopNoBreak(i + 1, user_agent_lower)

\* for agent in suspicious_agents: if agent in ua: score += 4; break
RECURSIVE AgentLoop(_, _)
AgentLoop(i, user_agent_lower) ==
    IF i > Len(suspicious_agents) THEN 0
    ELSE IF Contains(suspicious_agents[i], user_agent_lower) THEN 4
    ELSE AgentLoop(i + 1, user_agent_lower)

\* an attribute access (.startswith, .lower) on None raises AttributeError
ScoreRaises(status, user_agent, method, resource) ==
    \/ status.type # "str"
    \/ user_agent.type # "str"
    \/ resource.type # "str"

ScoreSum(status, user_agent, method, resource, agents) ==
      (IF StartsWith(status.s, <<"4">>) THEN 2 ELSE 0)
    + (IF status.s = <<"4", "0", "4">> THEN 3 ELSE 0)
    + (IF status.s = <<"4", "2", "9">> THEN 5 ELSE 0)
    + agents
    + (IF Len(user_agent.s) = 0 \/ Len(user_agent.s) < 10 THEN 3 ELSE 0)
    + (IF method = PyStr(<<"P", "O", "S", "T">>)
          /\ resource.s = <<"/", "c", "r", "e", "a", "t", "e">> THEN 1 ELSE 0)
    + (IF StartsWith(resource.s, <<"/", "a", "d", "m", "i", "n">>)
          \/ StartsWith(resource.s, <<"/", ".">>) THEN 5 ELSE 0)

calculate_abuse_score(source_ip, status, user_agent, method, resource) ==
    IF ScoreRaises(status, user_agent, method, resource)
    THEN [raised |-> TRUE, score |-> 0]
    ELSE [raised |-> FALSE,
          score |-> PyMin(ScoreSum(status, user_agent, method, resource,
                              AgentLoop(1, Lower(user_agent.s))), 100)]

(***************************************************************************)
(* realtime_abuse_detector.py: windows, the tracking table, thresholds     *)
(***************************************************************************)
ABUSE_THRESHOLD_5MIN == 3
ABUSE_THRESHOLD_HOUR == 6

\* get_time_window: datetime.fromisoformat(timestamp.replace('Z', '+00:00')),
\* dt.replace(minute=(dt.minute // w) * w, second=0, microsecond=0), formatted
\* as "<window_dt.isoformat()>_<w>min".  isoformat() of a datetime that was
\* parsed with an offset ends with the offset, so the key keeps three parts.
\* (The timestamps of the model all parse.)
get_time_window(timestamp, window_minutes) ==
    LET hour_start == timestamp.t - (timestamp.t % 3600)
        minute == (timestamp.t % 3600) \div 60
        minutes == (minute \div window_minutes) * window_minutes
    IN [start |-> hour_start + minutes * 60, minutes |-> window_minutes,
        tz |-> IF timestamp.tz = "Z" THEN "+00:00" ELSE timestamp.tz]

\* the range of the ACCUMULATED sum, as the data model of the tracking
\* record asks (used by the claims, never by the code)
RangeOfSum(sum) ==
    IF sum < 10 THEN "low"
    ELSE IF sum < 30 THEN "medium"
    ELSE IF sum < 60 THEN "high"
    ELSE "critical"

\* lines 312-317 with <= for <
get_abuse_score_range_inclusive(score) ==
    IF score <= 10 THEN "low"
    ELSE IF score <= 30 THEN "medium"
    ELSE IF score <= 60 THEN "high"
    ELSE "critical"

get_abuse_score_range(score) ==
    IF score < 10 THEN "low"
    ELSE IF score < 30 THEN "medium"
    ELSE IF score < 60 THEN "high"
    ELSE "critical"

TableKey(source_ip, time_window) == [ip_address |-> source_ip, time_window |-> time_window]

\* an item none of whose attributes exists yet: if_not_exists(x, :zero)
\* reads 0, ADD to a missing set starts from the empty set
MissingItem ==
    [request_count |-> 0, abuse_score |-> 0, last_seen |-> 0, ttl |-> 0,
     abuse_score_range |-> "", status_codes |-> {}, methods |-> {},
     resources |-> {}]

ItemAt(table, key) == IF key \in DOMAIN table THEN table[key] ELSE MissingItem

PutItem(table, key, item) == (key :> item) @@ table

\* SET request_count = :one (the if_not_exists(...) + lost): an overwrite
SetCountersOverwrite(old, v) ==
    [old EXCEPT !.request_count = 1,
                !.abuse_score = v.score,
                !.last_seen = v.timestamp,
                !.ttl = v.ttl,
                !.abuse_score_range = v.score_range]

\* the SET clause both update_item calls share (lines 137-141, 163-167)
SetCounters(old, v) ==
    [old EXCEPT !.request_count = @ + 1,
                !.abuse_score = @ + v.score,
                !.last_seen = v.timestamp,
                !.ttl = v.ttl,
                !.abuse_score_range = v.score_range]

\* update_item on the 5-minute key (lines 131-153): one atomic server-side
\* update: SET ..., ADD status_codes :status_set
update_item_5min(table, key, v) ==
    PutItem(table, key,
        [SetCounters(ItemAt(table, key), v) EXCEPT
            !.status_codes = @ \cup {v.status}])

\* the hourly update_item left out
update_item_hour_lost(table, key, v) == table

\* update_item on the hourly key (lines 157-180): SET ..., ADD methods, resources
update_item_hour(table, key, v) ==
    PutItem(table, key,
        [SetCounters(ItemAt(table, key), v) EXCEPT
            !.methods = @ \cup {v.method},
            !.resources = @ \cup {v.resource}])

\* ExpressionAttributeValues of update_tracking_data
UpdateValues(abuse_score, timestamp, ttl, status, method, resource) ==
    [score |-> abuse_score, timestamp |-> timestamp, ttl |-> ttl,
     score_range |-> get_abuse_score_range(abuse_score),
     status |-> status, method |-> method, resource |-> resource]

\* line 205 with >= for the score
FiveMinOverInclusive(item) ==
    item.request_count > ABUSE_THRESHOLD_5MIN \/ item.abuse_score >= 50

\* line 205 without the score test
FiveMinOverCountOnly(item) == item.request_count > ABUSE_THRESHOLD_5MIN

\* line 205
FiveMinOver(item) ==
    item.request_count > ABUSE_THRESHOLD_5MIN \/ item.abuse_score > 50

\* line 221
HourOver(item) ==
    item.request_count > ABUSE_THRESHOLD_HOUR \/ item.abuse_score > 100

(***************************************************************************)
(* The detector's inputs                                                   *)
(***************************************************************************)
ClockValues == {0, 900, 3600}

IP1 == <<"2", "0", "3", ".", "0", ".", "1", "1", "3", ".", "5">>
IP2 == <<"1", "0", ".", "0", ".", "0", ".", "1">>

LongAgent ==
    <<"M", "o", "z", "i", "l", "l", "a", "/", "5", ".", "0", " ", "(", "X",
      "1", "1", ";", " ", "L", "i", "n", "u", "x", ")">>

Ev(ip, status, ua, method, resource) ==
    [source_ip |-> PyStr(ip), status |-> PyStr(status),
     user_agent |-> PyStr(ua), method |-> PyStr(method),
     resource |-> PyStr(resource)]

At(e, t) ==
    [k \in DOMAIN e \cup {"timestamp"} |-> IF k = "timestamp" THEN Iso(t) ELSE e[k]]

Repeat(e, n) == [i \in 1..n |-> e]

\* 429 + "bot" (suspicious and short) + /admin: 7 + 4 + 3 + 5 = 19
Ev19 == Ev(IP1, <<"4", "2", "9">>, <<"b", "o", "t">>, <<"G", "E", "T">>,
           <<"/", "a", "d", "m", "i", "n">>)
\* 404 + empty user agent + /admin/config: 5 + 3 + 5 = 13
Ev13 == Ev(IP1, <<"4", "0", "4">>, <<>>, <<"G", "E", "T">>,
           <<"/", "a", "d", "m", "i", "n", "/", "c", "o", "n", "f", "i", "g">>)
\* 429 + /admin: 7 + 5 = 12
Ev12 == Ev(IP1, <<"4", "2", "9">>, LongAgent, <<"G", "E", "T">>,
           <<"/", "a", "d", "m", "i", "n">>)
\* 429: 7
Ev7 == Ev(IP1, <<"4", "2", "9">>, LongAgent, <<"G", "E", "T">>, <<"/">>)
\* 404: 5
Ev5 == Ev(IP1, <<"4", "0", "4">>, LongAgent, <<"G", "E", "T">>, <<"/">>)
\* a clean request: 0
Ev0 == Ev(IP1, <<"2", "0", "0">>, LongAgent, <<"P", "O", "S", "T">>, <<"/">>)
Ev0Other == Ev(IP2, <<"2", "0", "0">>, LongAgent, <<"G", "E", "T">>, <<"/">>)
EvNoIp ==
    [status |-> PyStr(<<"4", "0", "4">>), user_agent |-> PyStr(<<>>),
     method |-> PyStr(<<"G", "E", "T">>), resource |-> PyStr(<<"/">>)]
EvNoStatus ==
    [source_ip |-> PyStr(IP1), user_agent |-> PyStr(<<>>),
     method |-> PyStr(<<"G", "E", "T">>), resource |-> PyStr(<<"/">>)]

\* the events of a behaviour; an event without a timestamp gets utcnow()
IngestEvents ==
    {Ev12, Ev13, Ev7, Ev5, Ev0, Ev0Other, EvNoIp, EvNoStatus, At(Ev5, 0)}

\* what update_tracking_data(source_ip, abuse_score, timestamp, ...) does to
\* the table when both update_item calls succeed, with utcnow() = clock
TrackingUpdate(table, e, clock) ==
    LET s == calculate_abuse_score(e.source_ip, e.status, e.user_agent,
                                   e.method, e.resource).score
        ts == EventGet(e, "timestamp", Iso(clock))
        v == UpdateValues(s, ts, clock + 86400, e.status.s, e.method.s,
                          e.resource.s)
        t5 == update_item_5min(table,
                  TableKey(e.source_ip.s, get_time_window(ts, 5)), v)
    IN update_item_hour(t5, TableKey(e.source_ip.s, get_time_window(ts, 60)), v)

\* the table after the handler has processed the events of a sequence, one
\* after the other, each at the time of its timestamp, starting from a table
\* (the table of the first half is a value before the second half starts,
\* which keeps the evaluation shallow)
RECURSIVE TableFrom(_, _)
TableFrom(table, events) ==
    IF Len(events) = 0 THEN table
    ELSE IF Len(events) = 1
    THEN TrackingUpdate(table, events[1], events[1].timestamp.t)
    ELSE LET h == Len(events) \div 2
         IN CHOOSE r \in { TableFrom(t, SubSeq(events, h + 1, Len(events))) :
                             t \in {TableFrom(table, SubSeq(events, 1, h))} } : TRUE

TableAfter(events) == TableFrom(EmptyTable, events)

\* earlier traffic the table may hold when a behaviour starts
SeedRuns ==
    { <<>>,
      <<At(Ev19, 0), At(Ev19, 0)>>,
      <<At(Ev19, 0), At(Ev19, 0), At(Ev19, 300), At(Ev19, 300), At(Ev19, 600)>>,
      <<At(Ev0, 0), At(Ev0, 0), At(Ev0, 0), At(Ev0, 300), At(Ev0, 300),
        At(Ev0, 300)>> }

\* history of a seed: per key, how many updates and the sum of their scores
SeedApplied(events) ==
    LET n == Len(events)
        keysOf(e) == { TableKey(e.source_ip.s, get_time_window(e.timestamp, w)) :
                         w \in {5, 60} }
        keys == UNION { keysOf(events[i]) : i \in 1..n }
        hits(k) == { i \in 1..n : k \in keysOf(events[i]) }
        scoreOf(i) == calculate_abuse_score(events[i].source_ip, events[i].status,
                          events[i].user_agent, events[i].method,
                          events[i].resource).score
        SumOf(k) ==
            LET Sum[lo \in 1..(n + 1), hi \in 0..n] ==
                    IF lo > hi THEN 0
                    ELSE IF lo = hi
                    THEN (IF k \in keysOf(events[lo]) THEN scoreOf(lo) ELSE 0)
                    ELSE LET mid == (lo + hi) \div 2
                         IN Sum[lo, mid] + Sum[mid + 1, hi]
            IN Sum[1, n]
    IN [k \in keys |-> [n |-> Cardinality(hits(k)), sum |-> SumOf(k)]]

(***************************************************************************)
(* realtime_abuse_detector.py: handler, one action per external call       *)
(***************************************************************************)
SeedClock(events) ==
    IF Len(events) = 0 THEN 0 ELSE events[Len(events)].timestamp.t

Init ==
    /\ ScoreIdle
    /\ RepIdle
    /\ OrchIdle
    /\ PureIdle
    /\ QueryIdle
    /\ \E seed \in SeedRuns :
          /\ now = SeedClock(seed)
          /\ abuse_table = TableAfter(seed)
          /\ applied = SeedApplied(seed)
    /\ inv = [p \in Invocations |-> IdleInvocation]
    /\ started = 0
    /\ sns_alerts = 0
    /\ metrics_published = 0

\* history: one more update_item applied to a key, with its score
NoteApplied(key, score) ==
    LET old == IF key \in DOMAIN applied THEN applied[key] ELSE [n |-> 0, sum |-> 0]
    IN [k \in DOMAIN applied \cup {key} |->
            IF k = key THEN [n |-> old.n + 1, sum |-> old.sum + score]
            ELSE applied[k]]

\* handler lines 36-51: read the event, reject a missing source_ip, score.
\* An exception of calculate_abuse_score reaches the handler's except: 500.
Invoke(p, e) ==
    /\ inv[p].pc = "idle"
    /\ \A q \in Invocations : q < p => inv[q].pc # "idle"   \* slots are alike
    /\ started < MaxEvents
    /\ started' = started + 1
    /\ LET source_ip == EventGet(e, "source_ip", PyNone)
           status == EventGet(e, "status", PyNone)
           timestamp == EventGet(e, "timestamp", Iso(now))
           user_agent == EventGet(e, "user_agent", PyStr(<<>>))
           method == EventGet(e, "method", PyStr(<<>>))
           resource == EventGet(e, "resource", PyStr(<<>>))
           r == calculate_abuse_score(source_ip, status, user_agent, method, resource)
       IN inv' = [inv EXCEPT ![p] =
            IF ~Truthy(source_ip)
            THEN [IdleInvocation EXCEPT !.pc = "done", !.event = e, !.statusCode = 400]
            ELSE IF r.raised
            THEN [IdleInvocation EXCEPT !.pc = "done", !.event = e, !.statusCode = 500]
            ELSE [IdleInvocation EXCEPT !.pc = "update5", !.event = e,
                                        !.timestamp = timestamp,
                                        !.abuse_score = r.score]]
    /\ UNCHANGED repVars
    /\ UNCHANGED orchVars
    /\ UNCHANGED pureVars
    /\ UNCHANGED queryVars
    /\ UNCHANGED <<sc_event, sc_result, now, abuse_table, applied, sns_alerts, metrics_published>>

ValuesOf(i, ttl) ==
    UpdateValues(i.abuse_score, i.timestamp, ttl, i.event.status.s,
                 EventGet(i.event, "method", PyStr(<<>>)).s,
                 EventGet(i.event, "resource", PyStr(<<>>)).s)

\* update_tracking_data lines 127-153: the window, the ttl, the first update_item
Update5(p) ==
    /\ inv[p].pc = "update5"
    /\ LET ttl == now + 86400
           key == TableKey(inv[p].event.source_ip.s,
                           get_time_window(inv[p].timestamp, 5))
       IN /\ abuse_table' = update_item_5min(abuse_table, key, ValuesOf(inv[p], ttl))
          /\ applied' = NoteApplied(key, inv[p].abuse_score)
          /\ inv' = [inv EXCEPT ![p].pc = "update60", ![p].ttl = ttl]
    /\ UNCHANGED repVars
    /\ UNCHANGED orchVars
    /\ UNCHANGED pureVars
    /\ UNCHANGED queryVars
    /\ UNCHANGED <<sc_event, sc_result, now, started, sns_alerts, metrics_published>>

\* update_tracking_data lines 156-180: the second update_item, same ttl
Update60(p) ==
    /\ inv[p].pc = "update60"
    /\ LET key == TableKey(inv[p].event.source_ip.s,
                           get_time_window(inv[p].timestamp, 60))
       IN /\ abuse_table' = update_item_hour(abuse_table, key,
                                             ValuesOf(inv[p], inv[p].ttl))
          /\ applied' = NoteApplied(key, inv[p].abuse_score)
          /\ inv' = [inv EXCEPT ![p].pc = "check5"]
    /\ UNCHANGED repVars
    /\ UNCHANGED orchVars
    /\ UNCHANGED pureVars
    /\ UNCHANGED queryVars
    /\ UNCHANGED <<sc_event, sc_result, now, started, sns_alerts, metrics_published>>

\* check_abuse_thresholds lines 190-206: utcnow() is read once, then the
\* 5-minute item of the current window
Check5(p) ==
    /\ inv[p].pc = "check5"
    /\ LET key == TableKey(inv[p].event.source_ip.s, get_time_window(Iso(now), 5))
       IN inv' = [inv EXCEPT ![p] =
            IF key \in DOMAIN abuse_table /\ FiveMinOver(abuse_table[key])
            THEN [@ EXCEPT !.pc = "alert", !.should_alert = TRUE, !.check_now = now]
            ELSE [@ EXCEPT !.pc = "check60", !.check_now = now]]
    /\ UNCHANGED repVars
    /\ UNCHANGED orchVars
    /\ UNCHANGED pureVars
    /\ UNCHANGED queryVars
    /\ UNCHANGED <<sc_event, sc_result, now, abuse_table, started, applied, sns_alerts, metrics_published>>

\* check_abuse_thresholds lines 209-224: the hourly item of the same utcnow()
Check60(p) ==
    /\ inv[p].pc = "check60"
    /\ LET key == TableKey(inv[p].event.source_ip.s,
                           get_time_window(Iso(inv[p].check_now), 60))
           over == key \in DOMAIN abuse_table /\ HourOver(abuse_table[key])
       IN inv' = [inv EXCEPT ![p].should_alert = over,
                             ![p].pc = IF over THEN "alert" ELSE "metrics"]
    /\ UNCHANGED repVars
    /\ UNCHANGED orchVars
    /\ UNCHANGED pureVars
    /\ UNCHANGED queryVars
    /\ UNCHANGED <<sc_event, sc_result, now, abuse_table, started, applied, sns_alerts, metrics_published>>

\* a send_abuse_alert without its try: what sns.publish raises reaches the
\* handler's except, which returns 500
AlertOutcomeRaises(i, published) ==
    IF published THEN [i EXCEPT !.pc = "metrics"]
    ELSE [i EXCEPT !.pc = "done", !.statusCode = 500]

\* send_abuse_alert lines 232-261: the invocation after the call, whether
\* sns.publish went through or raised (the except only logs)
AlertOutcome(i, published) == [i EXCEPT !.pc = "metrics"]

\* handler lines 59-66: send_abuse_alert publishes to SNS
Alert(p) ==
    /\ inv[p].pc = "alert"
    /\ sns_alerts' = sns_alerts + 1
    /\ inv' = [inv EXCEPT ![p] = AlertOutcome(@, TRUE)]
    /\ UNCHANGED repVars
    /\ UNCHANGED orchVars
    /\ UNCHANGED pureVars
    /\ UNCHANGED queryVars
    /\ UNCHANGED <<sc_event, sc_result, now, abuse_table, started, applied, metrics_published>>

\* send_abuse_alert lines 252-261: sns.publish raises, the except logs
AlertFails(p) ==
    /\ inv[p].pc = "alert"
    /\ inv' = [inv EXCEPT ![p] = AlertOutcome(@, FALSE)]
    /\ UNCHANGED repVars
    /\ UNCHANGED orchVars
    /\ UNCHANGED pureVars
    /\ UNCHANGED queryVars
    /\ UNCHANGED <<sc_event, sc_result, now, abuse_table, started, applied, sns_alerts, metrics_published>>

\* handler lines 68-79: publish_abuse_metrics, then the 200 result
Metrics(p) ==
    /\ inv[p].pc = "metrics"
    /\ metrics_published' = metrics_published + 1
    /\ inv' = [inv EXCEPT ![p].pc = "done", ![p].statusCode = 200]
    /\ UNCHANGED repVars
    /\ UNCHANGED orchVars
    /\ UNCHANGED pureVars
    /\ UNCHANGED queryVars
    /\ UNCHANGED <<sc_event, sc_result, now, abuse_table, started, applied, sns_alerts>>

\* publish_abuse_metrics lines 265-293: put_metric_data raises, the except
\* logs, and the handler returns its 200 result
MetricsFail(p) ==
    /\ inv[p].pc = "metrics"
    /\ inv' = [inv EXCEPT ![p].pc = "done", ![p].statusCode = 200]
    /\ UNCHANGED repVars
    /\ UNCHANGED orchVars
    /\ UNCHANGED pureVars
    /\ UNCHANGED queryVars
    /\ UNCHANGED <<sc_event, sc_result, now, abuse_table, started, applied, sns_alerts, metrics_published>>

\* the invocation has returned; its slot serves the next event
Return(p) ==
    /\ inv[p].pc = "done"
    /\ inv' = [inv EXCEPT ![p] = IdleInvocation]
    /\ UNCHANGED repVars
    /\ UNCHANGED orchVars
    /\ UNCHANGED pureVars
    /\ UNCHANGED queryVars
    /\ UNCHANGED <<sc_event, sc_result, now, abuse_table, started, applied, sns_alerts, metrics_published>>

\* the wall clock moves on
Tick ==
    /\ \E t \in ClockValues : t > now /\ now' = t
    /\ UNCHANGED repVars
    /\ UNCHANGED orchVars
    /\ UNCHANGED pureVars
    /\ UNCHANGED queryVars
    /\ UNCHANGED <<sc_event, sc_result, abuse_table, inv, started, applied, sns_alerts, metrics_published>>

Next ==
    \/ \E p \in Invocations, e \in IngestEvents : Invoke(p, e)
    \/ \E p \in Invocations : Update5(p)
    \/ \E p \in Invocations : Update60(p)
    \/ \E p \in Invocations : Check5(p)
    \/ \E p \in Invocations : Check60(p)
    \/ \E p \in Invocations : Alert(p)
    \/ \E p \in Invocations : AlertFails(p)
    \/ \E p \in Invocations : Metrics(p)
    \/ \E p \in Invocations : MetricsFail(p)
    \/ \E p \in Invocations : Return(p)
    \/ Tick

Spec == Init /\ [][Next]_vars

\* the handler after a burst: 24 events {404, empty user agent, GET,
\* /admin/config} of one address in the 5-minute window that is running
BurstSeedRuns == { Repeat(At(Ev13, 0), 24) }

BurstInit ==
    /\ ScoreIdle
    /\ RepIdle
    /\ OrchIdle
    /\ PureIdle
    /\ QueryIdle
    /\ \E seed \in BurstSeedRuns :
          /\ now = SeedClock(seed)
          /\ abuse_table = TableAfter(seed)
          /\ applied = SeedApplied(seed)
    /\ inv = [p \in Invocations |-> IdleInvocation]
    /\ started = 0
    /\ sns_alerts = 0
    /\ metrics_published = 0

SpecBurst == BurstInit /\ [][Next]_vars

(***************************************************************************)
(* ip_reputation_checker.py: the three checkers and their merge            *)
(***************************************************************************)
\* str.split('.')
RECURSIVE Split(_)
Split(s) ==
    IF \A i \in 1..Len(s) : s[i] # "."
    THEN <<s>>
    ELSE LET i == CHOOSE j \in 1..Len(s) :
                      s[j] = "." /\ \A h \in 1..(j - 1) : s[h] # "."
         IN <<SubSeq(s, 1, i - 1)>> \o Split(SubSeq(s, i + 1, Len(s)))

Digits == <<"0", "1", "2", "3", "4", "5", "6", "7", "8", "9">>
IsDigit(c) == \E d \in 1..10 : Digits[d] = c
DigitValue(c) == (CHOOSE d \in 1..10 : Digits[d] = c) - 1

\* int(s) on a string of decimal digits; anything else raises ValueError
\* (the inputs hold no sign, blank or underscore)
IntRaises(s) == Len(s) = 0 \/ \E i \in 1..Len(s) : ~IsDigit(s[i])

RECURSIVE IntOf(_)
IntOf(s) ==
    IF Len(s) = 0 THEN 0
    ELSE 10 * IntOf(SubSeq(s, 1, Len(s) - 1)) + DigitValue(s[Len(s)])

\* suspicious_patterns[i](octets): "match", "no" or "raise" (lines 158-165)
SuspiciousPattern(i, o) ==
    CASE i = 1 -> IF o[1] = <<"1", "0">> THEN "match" ELSE "no"
      [] i = 2 -> IF o[1] # <<"1", "7", "2">> THEN "no"
                  ELSE IF IntRaises(o[2]) THEN "raise"
                  ELSE IF 16 <= IntOf(o[2]) /\ IntOf(o[2]) <= 31 THEN "match"
                  ELSE "no"
      [] i = 3 -> IF o[1] = <<"1", "9", "2">> /\ o[2] = <<"1", "6", "8">>
                  THEN "match" ELSE "no"
      [] i = 4 -> IF o[1] = <<"1">> /\ o[2] = <<"1">> /\ o[3] = <<"1">>
                     /\ o[4] = <<"1">>
                  THEN "match" ELSE "no"

\* for pattern in suspicious_patterns: try: if pattern(octets): ...; break
\*                                     except: continue      (lines 167-174)
RECURSIVE PatternLoop(_, _)
PatternLoop(i, o) ==
    IF i > 4 THEN FALSE
    ELSE IF SuspiciousPattern(i, o) = "match" THEN TRUE
    ELSE PatternLoop(i + 1, o)

\* a checker's result is a dict; only the keys it sets are in it
check_ip_patterns(ip_address) ==
    LET octets == Split(ip_address)
    IN IF Len(octets) # 4 THEN [sources |-> <<"pattern_check">>]
       ELSE IF PatternLoop(1, octets)
       THEN [sources |-> <<"pattern_check">>,
             threat_types |-> <<"suspicious_range">>,
             confidence_score |-> PyMax(0, 30)]
       ELSE [sources |-> <<"pattern_check">>]

bad_patterns ==
    { <<"0", ".", "0", ".", "0", ".", "0">>,
      <<"1", "2", "7", ".", "0", ".", "0", ".", "1">>,
      <<"2", "5", "5", ".", "2", "5", "5", ".", "2", "5", "5", ".", "2", "5", "5">> }

check_known_bad_ranges(ip_address) ==
    IF ip_address \in bad_patterns
    THEN [sources |-> <<"bad_ranges_check">>, is_malicious |-> TRUE,
          threat_types |-> <<"invalid_ip">>, confidence_score |-> 90]
    ELSE [sources |-> <<"bad_ranges_check">>]

check_geolocation_risks(ip_address) ==
    [sources |-> <<"geo_check">>, confidence_score |-> 10]

\* dict.update(other): every key of other replaces the value held
DictUpdate(d, other) ==
    [k \in DOMAIN d \cup DOMAIN other |-> IF k \in DOMAIN other THEN other[k] ELSE d[k]]

\* perform_reputation_lookup (lines 106-132); lookup_timestamp is left out
perform_reputation_lookup(ip_address) ==
    LET reputation_data ==
            [is_malicious |-> FALSE, threat_types |-> <<>>,
             confidence_score |-> 0, sources |-> <<>>]
        d1 == DictUpdate(reputation_data, check_ip_patterns(ip_address))
        d2 == DictUpdate(d1, check_known_bad_ranges(ip_address))
    IN DictUpdate(d2, check_geolocation_risks(ip_address))

\* set(list)
SetOf(list) == { list[i] : i \in 1..Len(list) }

\* line 84 without the comparison: every cached item counts as valid
CacheValidAlways(item, t) == TRUE

\* line 84: ttl > int(datetime.utcnow().timestamp())
CacheValid(item, t) == item.ttl > t

\* the Python types of the values of a dict the table returned: a number
\* attribute comes back as Decimal and a set attribute as set
CachedTypes ==
    [is_malicious |-> "bool", threat_types |-> "set",
     confidence_score |-> "Decimal", last_seen |-> "NoneType",
     sources |-> "set", cached_at |-> "str"]

\* the Python types of the values of the dict perform_reputation_lookup built
LookupTypes ==
    [is_malicious |-> "bool", threat_types |-> "list",
     confidence_score |-> "int", last_seen |-> "NoneType",
     sources |-> "list", lookup_timestamp |-> "str"]

\* json.dumps({..., 'reputation': d, ...}) (lines 44-49, 59-64) raises
\* TypeError on a value that is a set or a Decimal
JsonDumpsRaises(types) ==
    \E k \in DOMAIN types : types[k] \in {"set", "Decimal"}

\* get_cached_reputation (lines 76-94): the cached dict, or None
get_cached_reputation(table, ip_address, t) ==
    IF ip_address \in DOMAIN table /\ CacheValid(table[ip_address], t)
    THEN [found |-> TRUE,
          reputation |-> [is_malicious |-> table[ip_address].is_malicious,
                          threat_types |-> table[ip_address].threat_types,
                          confidence_score |-> table[ip_address].confidence_score,
                          sources |-> table[ip_address].sources,
                          cached_at |-> table[ip_address].cached_at],
          types |-> CachedTypes]
    ELSE [found |-> FALSE, reputation |-> [cached_at |-> 0],
          types |-> [k \in {} |-> ""]]

\* the item cache_reputation puts (lines 238-250), with utcnow() = t
CacheItem(reputation_data, t) ==
    [is_malicious |-> reputation_data.is_malicious,
     threat_types |-> SetOf(reputation_data.threat_types),
     confidence_score |-> reputation_data.confidence_score,
     sources |-> SetOf(reputation_data.sources),
     cached_at |-> t,
     ttl |-> t + 14400]

\* reputation_table.put_item(Item=item) (line 250): set() is no valid
\* attribute value, the call raises on an item that holds one and the except
\* of cache_reputation (lines 254-255) logs it
PutItemRaises(item) == item.threat_types = {} \/ item.sources = {}

(***************************************************************************)
(* ip_reputation_checker.py: handler                                       *)
(***************************************************************************)
RepClockValues == {0, 7200, 14400, 20000}

RepAddresses ==
    { <<"1", "0", ".", "0", ".", "0", ".", "1">>,
      <<"1", "7", "2", ".", "1", "6", ".", "0", ".", "1">>,
      <<"1", "7", "2", ".", "3", "2", ".", "0", ".", "1">>,
      <<"1", "7", "2", ".", "x", ".", "0", ".", "1">>,
      <<"1", "9", "2", ".", "1", "6", "8", ".", "1", ".", "1">>,
      <<"1", ".", "1", ".", "1", ".", "1">>,
      <<"1", "2", "7", ".", "0", ".", "0", ".", "1">>,
      <<"2", "0", "3", ".", "0", ".", "1", "1", "3", ".", "5">>,
      <<"l", "o", "c", "a", "l", "h", "o", "s", "t">> }

\* the events: {'ip_address': ...}, or the key missing
RepEvents == { [ip_address |-> PyStr(a)] : a \in RepAddresses } \cup { [other |-> PyNone] }

RepInit ==
    /\ ScoreIdle
    /\ Clock0
    /\ IngestIdle
    /\ RepIdle
    /\ OrchIdle
    /\ PureIdle
    /\ QueryIdle

\* handler lines 34-36: the address of the event, 400 without one
RepInvoke(c, e) ==
    /\ rep[c].pc = "idle"
    /\ \A d \in Checkers : d < c => rep[d].pc # "idle"   \* slots are alike
    /\ rep_started < MaxLookups
    /\ rep_started' = rep_started + 1
    /\ LET ip_address == EventGet(e, "ip_address", PyNone)
           \* history: the lookups of the same address that are under way,
           \* and whether the cache holds no valid entry of it at this moment
           others == { d \in Checkers \ {c} :
                         /\ rep[d].pc \in {"get_cached", "cache_put"}
                         /\ rep[d].ip_address = ip_address.s }
           cold == ~get_cached_reputation(reputation_table, ip_address.s, now).found
       IN rep' = [d \in Checkers |->
            IF d = c
            THEN IF ~Truthy(ip_address)
                 THEN [IdleChecker EXCEPT !.pc = "done", !.statusCode = 400]
                 ELSE [IdleChecker EXCEPT !.pc = "get_cached",
                                          !.ip_address = ip_address.s,
                                          !.cold = cold,
                                          !.concurrent = others # {}]
            ELSE IF Truthy(ip_address) /\ d \in others
                 THEN [rep[d] EXCEPT !.concurrent = TRUE]
                 ELSE rep[d]]
    /\ UNCHANGED <<now, reputation_table>>
    /\ UNCHANGED <<sc_event, sc_result>>
    /\ UNCHANGED ingestVars
    /\ UNCHANGED orchVars
    /\ UNCHANGED pureVars
    /\ UNCHANGED queryVars

\* handler lines 39-52: get_cached_reputation; a valid item is returned with
\* source 'cache', otherwise perform_reputation_lookup runs.  When
\* json.dumps raises on the cached dict the handler's except (lines 66-71)
\* returns 500 and neither the entry nor a source
RepGet(c) ==
    /\ rep[c].pc = "get_cached"
    /\ LET ip == rep[c].ip_address
           cached == get_cached_reputation(reputation_table, ip, now)
           seen == IF ip \in DOMAIN reputation_table
                   THEN reputation_table[ip].ttl ELSE 0
       IN rep' = [rep EXCEPT ![c] =
            IF cached.found /\ JsonDumpsRaises(cached.types)
            THEN [@ EXCEPT !.pc = "done", !.cache = "hit",
                           !.seen_ttl = seen, !.read_at = now,
                           !.statusCode = 500]
            ELSE IF cached.found
            THEN [@ EXCEPT !.pc = "done", !.source = "cache", !.cache = "hit",
                           !.seen_ttl = seen, !.read_at = now,
                           !.reputation = cached.reputation, !.statusCode = 200]
            ELSE [@ EXCEPT !.pc = "cache_put",
                           !.cache = IF ip \in DOMAIN reputation_table
                                     THEN "expired" ELSE "miss",
                           !.seen_ttl = seen, !.read_at = now,
                           !.reputation = perform_reputation_lookup(ip)]]
    /\ UNCHANGED <<now, reputation_table, rep_started>>
    /\ UNCHANGED <<sc_event, sc_result>>
    /\ UNCHANGED ingestVars
    /\ UNCHANGED orchVars
    /\ UNCHANGED pureVars
    /\ UNCHANGED queryVars

\* handler lines 55-64: cache_reputation puts the item, source 'lookup'
RepPut(c) ==
    /\ rep[c].pc = "cache_put"
    /\ reputation_table' =
          IF PutItemRaises(CacheItem(rep[c].reputation, now))
          THEN reputation_table
          ELSE PutItem(reputation_table, rep[c].ip_address,
                       CacheItem(rep[c].reputation, now))
    /\ rep' = [rep EXCEPT ![c].pc = "done", ![c].source = "lookup",
                          ![c].statusCode =
                              IF JsonDumpsRaises(LookupTypes) THEN 500 ELSE 200]
    /\ UNCHANGED <<now, rep_started>>
    /\ UNCHANGED <<sc_event, sc_result>>
    /\ UNCHANGED ingestVars
    /\ UNCHANGED orchVars
    /\ UNCHANGED pureVars
    /\ UNCHANGED queryVars

\* the invocation has returned; its slot serves the next event
RepReturn(c) ==
    /\ rep[c].pc = "done"
    /\ rep' = [rep EXCEPT ![c] = IdleChecker]
    /\ UNCHANGED <<now, reputation_table, rep_started>>
    /\ UNCHANGED <<sc_event, sc_result>>
    /\ UNCHANGED ingestVars
    /\ UNCHANGED orchVars
    /\ UNCHANGED pureVars
    /\ UNCHANGED queryVars

\* the wall clock moves on
RepTick ==
    /\ \E t \in RepClockValues : t > now /\ now' = t
    /\ UNCHANGED repVars
    /\ UNCHANGED <<sc_event, sc_result>>
    /\ UNCHANGED ingestVars
    /\ UNCHANGED orchVars
    /\ UNCHANGED pureVars
    /\ UNCHANGED queryVars

RepNext ==
    \/ \E c \in Checkers, e \in RepEvents : RepInvoke(c, e)
    \/ \E c \in Checkers : RepGet(c)
    \/ \E c \in Checkers : RepPut(c)
    \/ \E c \in Checkers : RepReturn(c)
    \/ RepTick

SpecRep == RepInit /\ [][RepNext]_vars

(***************************************************************************)
(* abuse_response_handler.py: the planner                                  *)
(***************************************************************************)
HIGH_VOLUME == <<"h", "i", "g", "h", "-", "v", "o", "l", "u", "m", "e">>
URL_CREATION == <<"u", "r", "l", "-", "c", "r", "e", "a", "t", "i", "o", "n">>
CUSTOM_ABUSE == <<"c", "u", "s", "t", "o", "m", "-", "a", "b", "u", "s", "e">>
SCANNER == <<"s", "c", "a", "n", "n", "e", "r">>
SUSPICIOUS_PATTERNS ==
    <<"s", "u", "s", "p", "i", "c", "i", "o", "u", "s", "_", "p", "a", "t",
      "t", "e", "r", "n", "s">>

\* an action of a plan: {'type': t, k: v}
ActionDict(t, k, v) == [x \in {"type", k} |-> IF x = "type" THEN t ELSE v]

\* a policy table whose block actions come before the identification they use
CategoryActionsBlockFirst(name) ==
    IF Contains(URL_CREATION, name)
    THEN << ActionDict("block_suspicious_ips", "duration_minutes", 60),
            ActionDict("identify_spam_creators", "severity", "high"),
            ActionDict("alert_admins", "priority", "critical") >>
    ELSE IF Contains(CUSTOM_ABUSE, name) /\ Contains(SCANNER, name)
    THEN << ActionDict("block_scanner_ips", "duration_minutes", 120),
            ActionDict("identify_scanners", "severity", "high"),
            ActionDict("alert_security_team", "priority", "high") >>
    ELSE <<>>

\* lines 77-103: the actions of the category the alarm name falls in
CategoryActions(name) ==
    IF Contains(HIGH_VOLUME, name)
    THEN << ActionDict("identify_high_volume_ips", "severity", "medium"),
            ActionDict("temporary_rate_limit", "duration_minutes", 30),
            ActionDict("alert_admins", "priority", "high") >>
    ELSE IF Contains(URL_CREATION, name)
    THEN << ActionDict("identify_spam_creators", "severity", "high"),
            ActionDict("block_suspicious_ips", "duration_minutes", 60),
            ActionDict("alert_admins", "priority", "critical") >>
    ELSE IF Contains(CUSTOM_ABUSE, name)
    THEN IF Contains(SCANNER, name)
         THEN << ActionDict("identify_scanners", "severity", "high"),
                 ActionDict("block_scanner_ips", "duration_minutes", 120),
                 ActionDict("alert_security_team", "priority", "high") >>
         ELSE IF Contains(SUSPICIOUS_PATTERNS, name)
         THEN << ActionDict("analyze_suspicious_patterns", "severity", "medium"),
                 ActionDict("temporary_monitoring_increase", "duration_minutes", 60),
                 ActionDict("alert_admins", "priority", "medium") >>
         ELSE <<>>
    ELSE <<>>

\* a planner that forgets the default monitoring action
determine_response_actions_no_default(alarm_name) ==
    IF alarm_name.type # "str"
    THEN << [type |-> "alert_admins", priority |-> "high",
             error |-> "AttributeError"] >>
    ELSE CategoryActions(Lower(alarm_name.s))

\* determine_response_actions(alarm_name, alarm_reason); the reason is not
\* read.  alarm_name.lower() raises on a name that is no string, and the
\* except of line 111 answers with a single alert_admins action.
determine_response_actions(alarm_name) ==
    IF alarm_name.type # "str"
    THEN << [type |-> "alert_admins", priority |-> "high",
             error |-> "AttributeError"] >>
    ELSE CategoryActions(Lower(alarm_name.s))
            \o << ActionDict("increase_logging_detail", "duration_minutes", 30) >>

(***************************************************************************)
(* abuse_response_handler.py: the identification reads                     *)
(***************************************************************************)
\* a list element that is a dict (a str element is PyStr)
PyDict(d) == [type |-> "dict", d |-> d]

\* list[:n]
Take(list, n) == SubSeq(list, 1, PyMin(n, Len(list)))

\* list.sort(key=lambda x: x[field], reverse=True): descending, and stable,
\* so equal elements keep the order they had
RECURSIVE SortDesc(_, _)
SortDesc(list, field) ==
    IF Len(list) <= 1 THEN list
    ELSE LET x == Head(list)
             rest == SortDesc(Tail(list), field)
             p == Cardinality({ j \in 1..Len(rest) : rest[j].d[field] > x.d[field] })
         IN SubSeq(rest, 1, p) \o <<x>> \o SubSeq(rest, p + 1, Len(rest))

\* Limit=n: the service reads at most n of the candidate items
Limited(keys, limit) ==
    IF Cardinality(keys) <= limit THEN {keys}
    ELSE { S \in SUBSET keys : Cardinality(S) = limit }

\* the orders in which the service may return the items of a set of keys
Orders(keys) ==
    { q \in [1..Cardinality(keys) -> keys] :
        \A a, b \in 1..Cardinality(keys) : a # b => q[a] # q[b] }

\* an item as a response carries it: the key attributes and the others
ResponseItem(table, key) ==
    [k \in DOMAIN key \cup DOMAIN table[key] |->
        IF k \in DOMAIN key THEN key[k] ELSE table[key][k]]

\* abuse_table.query(IndexName='abuse-score-index',
\*     KeyConditionExpression='abuse_score_range = :range', Limit=limit)
Query(table, range, limit) ==
    LET keys == { k \in DOMAIN table : table[k].abuse_score_range = range }
    IN { [i \in 1..Len(q) |-> ResponseItem(table, q[i])] :
            q \in UNION { Orders(S) : S \in Limited(keys, limit) } }

\* abuse_table.scan(FilterExpression='contains(status_codes, :status)',
\*     Limit=limit): the limit counts the items read, the filter comes after
Scan(table, status, limit) ==
    LET Matches(k) == status \in table[k].status_codes
    IN { [i \in 1..Len(SelectSeq(q, Matches)) |->
              ResponseItem(table, SelectSeq(q, Matches)[i])] :
            q \in UNION { Orders(S) : S \in Limited(DOMAIN table, limit) } }

IpEntry(item) ==
    PyDict([ip |-> item.ip_address, request_count |-> item.request_count,
            abuse_score |-> item.abuse_score, last_seen |-> item.last_seen])

\* identify_high_volume_ips lines 196-218, for one response of the query
high_volume_ips(items) ==
    Take(SortDesc([i \in 1..Len(items) |-> IpEntry(items[i])], "abuse_score"), 10)

\* identify_spam_creators lines 237-254, for one response of the query
spam_creators(items) ==
    LET IsCreator(item) ==
            /\ <<"P", "O", "S", "T">> \in item.methods
            /\ \E r \in item.resources :
                  Contains(<<"/", "c", "r", "e", "a", "t", "e">>, r)
        kept == SelectSeq(items, IsCreator)
    IN Take(SortDesc([i \in 1..Len(kept) |-> IpEntry(kept[i])], "abuse_score"), 5)

\* lines 278-279: the share of the distinct status codes that start with
\* '4', in percent.  The code keeps a float; the integer part compares with
\* 50 and orders as the float does while a set has fewer than 100 codes.
error_rate(status_codes) ==
    IF status_codes = {} THEN 0
    ELSE (Cardinality({ s \in status_codes : StartsWith(s, <<"4">>) }) * 100)
            \div Cardinality(status_codes)

\* identify_scanner_ips lines 272-293, for one response of the scan
scanner_ips(items) ==
    LET IsScanner(item) ==
            error_rate(item.status_codes) > 50 /\ item.request_count > 10
        kept == SelectSeq(items, IsScanner)
        entry(item) ==
            PyDict([ip |-> item.ip_address, request_count |-> item.request_count,
                    error_rate |-> error_rate(item.status_codes),
                    abuse_score |-> item.abuse_score,
                    last_seen |-> item.last_seen])
    IN Take(SortDesc([i \in 1..Len(kept) |-> entry(kept[i])], "error_rate"), 5)

\* what an identify_* call may return: the list built from a response, or
\* [] when the read raises (the except of each function)
identify_high_volume_ips(table) ==
    { high_volume_ips(items) : items \in Query(table, "high", 20) } \cup {<<>>}

identify_spam_creators(table) ==
    { spam_creators(items) : items \in Query(table, "critical", 15) } \cup {<<>>}

identify_scanner_ips(table) ==
    { scanner_ips(items) : items \in Scan(table, <<"4", "0", "4">>, 20) } \cup {<<>>}

(***************************************************************************)
(* abuse_response_handler.py: the executor and the notification            *)
(***************************************************************************)
\* block_ips_in_waf(ip_addresses, duration_minutes) lines 302-326
block_ips_in_waf(ip_addresses, waf) ==
    IF ~waf THEN <<>> ELSE Take(ip_addresses, 5)

\* a rate limiter whose update always fails
apply_temporary_rate_limit_fails(waf) == FALSE

\* apply_temporary_rate_limit(duration_minutes) lines 335-348
apply_temporary_rate_limit(waf) == waf

\* a block step that takes its targets from a fixed list, not from the
\* identification results of the run
IpsToBlockFixed(results) == << PyStr(IP2) >>

\* lines 145-149: the IPs of the identification steps that ran before
IpsToBlock(results) ==
    (IF "spam_creator_ips" \in DOMAIN results
        THEN Take(results.spam_creator_ips, 5) ELSE <<>>)
    \o (IF "scanner_ips" \in DOMAIN results
        THEN Take(results.scanner_ips, 5) ELSE <<>>)

Successful(results, action_type) ==
    [results EXCEPT !.successful_actions = Append(@, PyStr(action_type))]

\* a failure that is also counted as a success
FailedAndSuccessful(results, action_type) ==
    [results EXCEPT !.successful_actions = Append(@, PyStr(action_type)),
                    !.failed_actions = Append(@, PyStr(action_type))]

Failed(results, action_type) ==
    [results EXCEPT !.failed_actions = Append(@, PyStr(action_type))]

\* an executor that drops an action it does not know
UnknownActionIgnored(results, action_type) == results

\* lines 178-180: the else of the chain, an action type it does not know
UnknownAction(results, action_type) == Failed(results, action_type)

\* the body of the loop of execute_response_actions (lines 126-180) for one
\* action; ips is what the identify_* call of the action returned
ExecuteAction(results, action, ips, waf) ==
    LET action_type == action.type
    IN CASE action_type = "identify_high_volume_ips" ->
              Successful(DictUpdate(results, [high_volume_ips |-> ips]), action_type)
         [] action_type = "identify_spam_creators" ->
              Successful(DictUpdate(results, [spam_creator_ips |-> ips]), action_type)
         [] action_type = "identify_scanners" ->
              Successful(DictUpdate(results, [scanner_ips |-> ips]), action_type)
         [] action_type \in {"block_suspicious_ips", "block_scanner_ips"} ->
              IF IpsToBlock(results) # <<>> /\ waf
              THEN Successful(
                     [results EXCEPT !.ips_blocked =
                         @ \o block_ips_in_waf(IpsToBlock(results), waf)],
                     action_type)
              ELSE results
         [] action_type = "temporary_rate_limit" ->
              IF waf
              THEN IF apply_temporary_rate_limit(waf)
                   THEN Successful(results, action_type)
                   ELSE Failed(results, action_type)
              ELSE results
         [] action_type \in {"alert_admins", "alert_security_team"} ->
              Successful(results, action_type)
         [] action_type \in {"increase_logging_detail",
                             "temporary_monitoring_increase"} ->
              Successful(results, action_type)
         [] OTHER -> UnknownAction(results, action_type)

\* what the identify_* call of an action may return (<<>> for the others)
IdentifyOutcomes(action_type, table) ==
    CASE action_type = "identify_high_volume_ips" -> identify_high_volume_ips(table)
      [] action_type = "identify_spam_creators" -> identify_spam_creators(table)
      [] action_type = "identify_scanners" -> identify_scanner_ips(table)
      [] OTHER -> {<<>>}

\* a loop that leaves at the first failed action
AfterActionAbort(i, n, failed) == IF failed THEN n + 1 ELSE i + 1

\* lines 124-125 and 182-184: the try is inside the for, so the loop goes on
\* to the next action whatever the action did
AfterAction(i, n, failed) == i + 1

\* ', '.join(list) raises TypeError on an element that is no str
JoinRaises(list) == \E i \in 1..Len(list) : list[i].type # "str"

\* send_response_notification lines 357-398: building the message raises
NotificationRaises(actions, results) ==
    \/ results.ips_blocked # <<>> /\ JoinRaises(results.ips_blocked)
    \/ results.failed_actions # <<>> /\ JoinRaises(results.failed_actions)

(***************************************************************************)
(* abuse_response_handler.py: handler, and the alarms it is invoked with   *)
(***************************************************************************)
EmptyDict == [k \in {} |-> 0]

ALARM == <<"A", "L", "A", "R", "M">>

AlarmEvent(name, value) ==
    [detail |-> [alarmName |-> PyStr(name),
                 state |-> [value |-> PyStr(value)]]]

OrchAlarmNames ==
    { <<"s", "q", "u", "r", "l", "-", "h", "i", "g", "h", "-", "v", "o", "l",
        "u", "m", "e", "-", "p", "r", "o", "d">>,
      <<"U", "R", "L", "-", "C", "r", "e", "a", "t", "i", "o", "n", "-", "S",
        "p", "i", "k", "e">>,
      <<"s", "q", "u", "r", "l", "-", "c", "u", "s", "t", "o", "m", "-", "a",
        "b", "u", "s", "e", "-", "s", "c", "a", "n", "n", "e", "r">>,
      <<"c", "u", "s", "t", "o", "m", "-", "a", "b", "u", "s", "e", "-", "s",
        "u", "s", "p", "i", "c", "i", "o", "u", "s", "_", "p", "a", "t", "t",
        "e", "r", "n", "s">>,
      <<"s", "c", "a", "n", "n", "e", "r", "-", "a", "l", "a", "r", "m">>,
      <<"c", "p", "u", "-", "u", "t", "i", "l", "i", "z", "a", "t", "i", "o",
        "n">>,
      <<"c", "u", "s", "t", "o", "m", "-", "a", "b", "u", "s", "e", "-", "s",
        "u", "s", "p", "i", "c", "i", "o", "u", "s", "-", "p", "a", "t", "t",
        "e", "r", "n">> }

\* an alarm record whose alarmName is null: detail.get('alarmName', '')
\* (line 37) gives None, as the key is present
NullNameEvent ==
    [detail |-> [alarmName |-> PyNone, state |-> [value |-> PyStr(ALARM)]]]

OrchEvents ==
    { AlarmEvent(n, v) : n \in OrchAlarmNames, v \in {ALARM, <<"O", "K">>} }
        \cup { [source |-> "aws.cloudwatch"], NullNameEvent }

\* earlier traffic the tracking table may hold when an alarm arrives: none;
\* eleven 404s of one address in one window; the same in two windows; six
\* 404s and six 200s in one window
OrchSeedRuns ==
    { <<>>,
      Repeat(At(Ev5, 0), 11),
      Repeat(At(Ev5, 0), 11) \o Repeat(At(Ev5, 300), 11),
      Repeat(At(Ev5, 0), 6) \o Repeat(At(Ev0, 0), 6) }

OrchInit ==
    /\ ScoreIdle
    /\ RepIdle
    /\ \E seed \in OrchSeedRuns :
          /\ now = SeedClock(seed)
          /\ abuse_table = TableAfter(seed)
          /\ applied = SeedApplied(seed)
    /\ inv = [p \in Invocations |-> IdleInvocation]
    /\ started = 0
    /\ sns_alerts = 0
    /\ metrics_published = 0
    /\ waf_configured \in BOOLEAN
    /\ orch = IdleRun
    /\ orch_started = 0
    /\ PureIdle
    /\ QueryIdle

\* a handler that treats every alarm state as ALARM
NoActionNeededNever(alarm_state) == FALSE

\* handler line 41: if alarm_state != 'ALARM'
NoActionNeeded(alarm_state) == alarm_state # PyStr(ALARM)

\* handler lines 36-43: read the alarm; anything but ALARM needs no action
OrchInvoke(event) ==
    /\ orch.pc = "idle"
    /\ orch_started < MaxRuns
    /\ orch_started' = orch_started + 1
    /\ LET detail == EventGet(event, "detail", EmptyDict)
           alarm_name == EventGet(detail, "alarmName", PyStr(<<>>))
           alarm_state == EventGet(EventGet(detail, "state", EmptyDict),
                                   "value", PyStr(<<>>))
       IN orch' = [IdleRun EXCEPT
                     !.pc = IF NoActionNeeded(alarm_state) THEN "SKIPPED"
                            ELSE "RECEIVED",
                     !.alarm_name = alarm_name,
                     !.alarm_state = alarm_state,
                     !.statusCode = IF NoActionNeeded(alarm_state) THEN 200 ELSE 0]
    /\ UNCHANGED <<sc_event, sc_result, now, waf_configured>>
    /\ UNCHANGED ingestVars
    /\ UNCHANGED repVars
    /\ UNCHANGED pureVars
    /\ UNCHANGED queryVars

\* handler line 46: determine_response_actions
OrchPlan ==
    /\ orch.pc = "RECEIVED"
    /\ orch' = [orch EXCEPT !.pc = "PLANNED",
                            !.actions = determine_response_actions(orch.alarm_name)]
    /\ UNCHANGED <<sc_event, sc_result, now, waf_configured, orch_started>>
    /\ UNCHANGED ingestVars
    /\ UNCHANGED repVars
    /\ UNCHANGED pureVars
    /\ UNCHANGED queryVars

\* execute_response_actions lines 117-122: the empty results
OrchStart ==
    /\ orch.pc = "PLANNED"
    /\ orch' = [orch EXCEPT !.pc = "EXECUTING", !.i = 1, !.results = NoResults]
    /\ UNCHANGED <<sc_event, sc_result, now, waf_configured, orch_started>>
    /\ UNCHANGED ingestVars
    /\ UNCHANGED repVars
    /\ UNCHANGED pureVars
    /\ UNCHANGED queryVars

\* execute_response_actions lines 124-184: one turn of the loop
OrchExecute ==
    /\ orch.pc = "EXECUTING"
    /\ orch.i <= Len(orch.actions)
    /\ LET action == orch.actions[orch.i]
       IN \E ips \in IdentifyOutcomes(action.type, abuse_table) :
            LET results == ExecuteAction(orch.results, action, ips, waf_configured)
                failed == Len(results.failed_actions) > Len(orch.results.failed_actions)
            IN orch' = [orch EXCEPT
                          !.results = results,
                          !.attempted = Append(@, action.type),
                          !.i = AfterAction(orch.i, Len(orch.actions), failed)]
    /\ UNCHANGED <<sc_event, sc_result, now, waf_configured, orch_started>>
    /\ UNCHANGED ingestVars
    /\ UNCHANGED repVars
    /\ UNCHANGED pureVars
    /\ UNCHANGED queryVars

\* handler lines 56-69: json.dumps of the body raises TypeError on the
\* Decimal values (request_count, abuse_score) that an identification entry
\* took from the table, and the handler's except answers 500
BodyDumpRaises(results) ==
    \E f \in DOMAIN results \cap
               {"high_volume_ips", "spam_creator_ips", "scanner_ips"} :
        results[f] # <<>>

\* handler lines 52-69: send_response_notification, whose except swallows
\* what building the message raises, then the result
OrchNotify ==
    /\ orch.pc = "EXECUTING"
    /\ orch.i > Len(orch.actions)
    /\ orch' = [orch EXCEPT
                  !.pc = "COMPLETED",
                  !.published = IF NotificationRaises(orch.actions, orch.results)
                                THEN 0 ELSE 1,
                  !.statusCode = IF BodyDumpRaises(orch.results)
                                 THEN 500 ELSE 200]
    /\ UNCHANGED <<sc_event, sc_result, now, waf_configured, orch_started>>
    /\ UNCHANGED ingestVars
    /\ UNCHANGED repVars
    /\ UNCHANGED pureVars
    /\ UNCHANGED queryVars

\* the invocation has returned; the next alarm starts a new run
OrchReturn ==
    /\ orch.pc \in {"COMPLETED", "SKIPPED"}
    /\ orch' = IdleRun
    /\ UNCHANGED <<sc_event, sc_result, now, waf_configured, orch_started>>
    /\ UNCHANGED ingestVars
    /\ UNCHANGED repVars
    /\ UNCHANGED pureVars
    /\ UNCHANGED queryVars

\* the clock values of a response run: shortly after the seeded traffic, and
\* more than 24 hours after it (past the ttl of every seeded record)
OrchClockValues == {600, 90000}

\* time passes between and during the runs
OrchTick ==
    /\ \E t \in OrchClockValues : t > now /\ now' = t
    /\ UNCHANGED <<sc_event, sc_result, waf_configured, orch, orch_started>>
    /\ UNCHANGED ingestVars
    /\ UNCHANGED repVars
    /\ UNCHANGED pureVars
    /\ UNCHANGED queryVars

\* the table's time-to-live attribute ('ttl', lines 128, 140 and 166 of the
\* detector): the store deletes an item some time after its ttl has passed;
\* until then reads, queries and scans still return it
Expire ==
    /\ \E k \in DOMAIN abuse_table :
          /\ abuse_table[k].ttl <= now
          /\ abuse_table' = [j \in DOMAIN abuse_table \ {k} |-> abuse_table[j]]
    /\ UNCHANGED <<sc_event, sc_result, now, waf_configured, orch, orch_started>>
    /\ UNCHANGED <<inv, started, applied, sns_alerts, metrics_published>>
    /\ UNCHANGED repVars
    /\ UNCHANGED pureVars
    /\ UNCHANGED queryVars

\* the steps of a run that has been invoked
OrchStep == OrchPlan \/ OrchStart \/ OrchExecute \/ OrchNotify

OrchNext ==
    \/ \E event \in OrchEvents : OrchInvoke(event)
    \/ OrchPlan
    \/ OrchStart
    \/ OrchExecute
    \/ OrchNotify
    \/ OrchReturn
    \/ OrchTick
    \/ Expire

SpecOrch == OrchInit /\ [][OrchNext]_vars

\* a lambda that has been invoked runs its code to the end
FairSpecOrch == SpecOrch /\ WF_vars(OrchStep)

(***************************************************************************)
(* Scoring: the inputs                                                     *)
(***************************************************************************)
ScoreStatuses ==
    { <<"2", "0", "0">>, <<"4", "0", "4">>, <<"4", "2", "9">>,
      <<"4", "0", "0">>, <<"4">>, <<"5", "0", "0">>, <<>> }

ScoreUserAgents ==
    { <<>>,
      <<"b", "o", "t">>,
      <<"c", "u", "r", "l", "/", "7", ".", "6", "8">>,
      <<"0", "1", "2", "3", "4", "5", "6", "7", "8", "9">>,
      <<"M", "o", "z", "i", "l", "l", "a", "/", "5", ".", "0", " ", "(", "X",
        "1", "1", ";", " ", "L", "i", "n", "u", "x", ")">>,
      <<"G", "o", "o", "g", "l", "e", "b", "o", "t", "/", "2", ".", "1", " ",
        "(", "+", "h", "t", "t", "p", ")">>,
      <<"S", "P", "I", "D", "E", "R", "-", "c", "r", "a", "w", "l", "e", "r",
        "-", "s", "c", "a", "n", "n", "e", "r", " ", "1", ".", "0">> }

ScoreMethods == { <<"G", "E", "T">>, <<"P", "O", "S", "T">>, <<"p", "o", "s", "t">> }

ScoreResources ==
    { <<"/">>,
      <<"/", "c", "r", "e", "a", "t", "e">>,
      <<"/", "c", "r", "e", "a", "t", "e", "/", "x">>,
      <<"/", "a", "d", "m", "i", "n">>,
      <<"/", "a", "d", "m", "i", "n", "/", "c", "o", "n", "f", "i", "g">>,
      <<"/", ".", "e", "n", "v">>,
      <<"/", "A", "d", "m", "i", "n">>,
      <<"/", "x", "/", "a", "d", "m", "i", "n">> }

\* the event dicts: every field a string, or the status key missing
ScoreEvents ==
    { [status |-> PyStr(st), user_agent |-> PyStr(ua),
       method |-> PyStr(m), resource |-> PyStr(r)] :
        st \in ScoreStatuses, ua \in ScoreUserAgents,
        m \in ScoreMethods, r \in ScoreResources }
    \cup
    { [user_agent |-> PyStr(ua), method |-> PyStr(m), resource |-> PyStr(r)] :
        ua \in ScoreUserAgents, m \in ScoreMethods, r \in ScoreResources }

ScoreInit ==
    /\ sc_event \in ScoreEvents
    /\ sc_result = [state |-> "pending", score |-> 0]
    /\ Clock0
    /\ IngestIdle
    /\ RepIdle
    /\ OrchIdle
    /\ PureIdle
    /\ QueryIdle

\* handler lines 39-51: the fields are read with .get and scored
ScoreCall ==
    /\ sc_result.state = "pending"
    /\ LET r == calculate_abuse_score(
                    PyStr(<<>>),
                    EventGet(sc_event, "status", PyNone),
                    EventGet(sc_event, "user_agent", PyStr(<<>>)),
                    EventGet(sc_event, "method", PyStr(<<>>)),
                    EventGet(sc_event, "resource", PyStr(<<>>)))
       IN sc_result' = IF r.raised
                       THEN [state |-> "raised", score |-> 0]
                       ELSE [state |-> "returned", score |-> r.score]
    /\ UNCHANGED <<sc_event, now>>
    /\ UNCHANGED ingestVars
    /\ UNCHANGED repVars
    /\ UNCHANGED orchVars
    /\ UNCHANGED pureVars
    /\ UNCHANGED queryVars

ScoreNext == ScoreCall

SpecScore == ScoreInit /\ [][ScoreNext]_vars

(***************************************************************************)
(* realtime_abuse_detector.py: get_time_window and get_abuse_score_range   *)
(* called on their own                                                     *)
(***************************************************************************)
MaxScore == 120         \* the largest sum handed to get_abuse_score_range

\* seconds of a day: 00:00:00, 12:00:00, 12:04:59, 12:05:00, 12:07:33,
\* 12:09:59, 12:10:00, 12:59:59, 13:00:00
PureSeconds == {0, 43200, 43499, 43500, 43653, 43799, 43800, 46799, 46800}

\* the same seconds as utcnow().isoformat() writes them, as '...Z' and as
\* '...+00:00'
PureTimestamps ==
    { Iso(t) : t \in PureSeconds } \cup { IsoZ(t) : t \in PureSeconds }
        \cup { IsoUtc(t) : t \in PureSeconds }

PureInit ==
    /\ ScoreIdle
    /\ Clock0
    /\ IngestIdle
    /\ RepIdle
    /\ OrchIdle
    /\ PureIdle
    /\ QueryIdle

\* get_time_window on two timestamps, each with a granularity
WindowCall(t1, w1, t2, w2) ==
    /\ pf_call.fn = "none"
    /\ pf_call' = [fn |-> "get_time_window", t1 |-> t1, w1 |-> w1,
                   t2 |-> t2, w2 |-> w2]
    /\ pf_result' = [fn |-> "get_time_window",
                     key1 |-> get_time_window(t1, w1),
                     key2 |-> get_time_window(t2, w2)]
    /\ UNCHANGED <<sc_event, sc_result, now>>
    /\ UNCHANGED ingestVars
    /\ UNCHANGED repVars
    /\ UNCHANGED orchVars
    /\ UNCHANGED queryVars

RangeCall(score) ==
    /\ pf_call.fn = "none"
    /\ pf_call' = [fn |-> "get_abuse_score_range", score |-> score]
    /\ pf_result' = [fn |-> "get_abuse_score_range",
                     range |-> get_abuse_score_range(score)]
    /\ UNCHANGED <<sc_event, sc_result, now>>
    /\ UNCHANGED ingestVars
    /\ UNCHANGED repVars
    /\ UNCHANGED orchVars
    /\ UNCHANGED queryVars

PureNext ==
    \/ \E t1, t2 \in PureTimestamps, w1, w2 \in {5, 60} : WindowCall(t1, w1, t2, w2)
    \/ \E score \in 0..MaxScore : RangeCall(score)

SpecPure == PureInit /\ [][PureNext]_vars

(***************************************************************************)
(* abuse_processor.py execute_log_query and privacy_compliant_analytics.py *)
(* run_log_insights_query: the loop that polls a Logs Insights query       *)
(***************************************************************************)
MaxQueries == 2         \* log queries started in one behaviour

QueryFunctions == {"execute_log_query", "run_log_insights_query"}

\* max_attempts = 30 (abuse_processor.py line 174) and max_wait_time = 30
\* (privacy_compliant_analytics.py line 286)
max_attempts == 30

\* the statuses get_query_results reports for a query that has ended
EndStatuses == {"Complete", "Failed", "Cancelled", "Timeout"}

\* the rows a query may end with
QueryRows == { <<>>, << <<"r", "o", "w">> >> }

\* the statuses on which the loop returns []: elif status == 'Failed'
\* (abuse_processor.py line 183), elif status in ['Failed', 'Cancelled']
\* (privacy_compliant_analytics.py line 295)
ReturnsEmptyOn(fn) ==
    IF fn = "execute_log_query" THEN {"Failed"} ELSE {"Failed", "Cancelled"}

\* while attempts < max_attempts / while wait_time < max_wait_time
LoopGoesOn(attempts) == attempts < max_attempts

QueryInit ==
    /\ ScoreIdle
    /\ Clock0
    /\ IngestIdle
    /\ RepIdle
    /\ OrchIdle
    /\ PureIdle
    /\ QueryIdle

\* logs_client.start_query: the service schedules the query and answers with
\* its queryId
QueryStart(fn) ==
    /\ lq.pc = "idle"
    /\ lq_started < MaxQueries
    /\ lq_started' = lq_started + 1
    /\ lq' = [IdleQuery EXCEPT !.fn = fn, !.pc = "poll", !.service = "Scheduled"]
    /\ UNCHANGED <<sc_event, sc_result, now>>
    /\ UNCHANGED ingestVars
    /\ UNCHANGED repVars
    /\ UNCHANGED orchVars
    /\ UNCHANGED pureVars

\* logs_client.start_query raises: the except of the function returns []
QueryStartFails(fn) ==
    /\ lq.pc = "idle"
    /\ lq_started < MaxQueries
    /\ lq_started' = lq_started + 1
    /\ lq' = [IdleQuery EXCEPT !.fn = fn, !.pc = "returned"]
    /\ UNCHANGED <<sc_event, sc_result, now>>
    /\ UNCHANGED ingestVars
    /\ UNCHANGED repVars
    /\ UNCHANGED orchVars
    /\ UNCHANGED pureVars

\* the service runs the query: Scheduled, Running, then one of the statuses
\* of a query that has ended, which it keeps
QueryProgress ==
    /\ \/ /\ lq.service = "Scheduled"
          /\ lq' = [lq EXCEPT !.service = "Running"]
       \/ /\ lq.service \in {"Scheduled", "Running"}
          /\ \E st \in EndStatuses, rows \in QueryRows :
                lq' = [lq EXCEPT !.service = st,
                                 !.rows = IF st = "Complete" THEN rows ELSE <<>>]
    /\ UNCHANGED <<sc_event, sc_result, now, lq_started>>
    /\ UNCHANGED ingestVars
    /\ UNCHANGED repVars
    /\ UNCHANGED orchVars
    /\ UNCHANGED pureVars

\* one turn of the while loop: get_query_results, the tests on the status,
\* and time.sleep(1) with the increment when neither test leaves the function
QueryPoll ==
    /\ lq.pc = "poll"
    /\ LoopGoesOn(lq.attempts)
    /\ lq' = IF lq.service = "Complete"
             THEN [lq EXCEPT !.pc = "returned", !.polls = @ + 1,
                             !.status = lq.service, !.result = lq.rows]
             ELSE IF lq.service \in ReturnsEmptyOn(lq.fn)
             THEN [lq EXCEPT !.pc = "returned", !.polls = @ + 1,
                             !.status = lq.service, !.result = <<>>]
             ELSE [lq EXCEPT !.polls = @ + 1, !.status = lq.service,
                             !.attempts = @ + 1]
    /\ UNCHANGED <<sc_event, sc_result, now, lq_started>>
    /\ UNCHANGED ingestVars
    /\ UNCHANGED repVars
    /\ UNCHANGED orchVars
    /\ UNCHANGED pureVars

\* get_query_results raises: the except of the function returns []
QueryPollFails ==
    /\ lq.pc = "poll"
    /\ LoopGoesOn(lq.attempts)
    /\ lq' = [lq EXCEPT !.pc = "returned", !.polls = @ + 1,
                        !.status = "raised", !.result = <<>>]
    /\ UNCHANGED <<sc_event, sc_result, now, lq_started>>
    /\ UNCHANGED ingestVars
    /\ UNCHANGED repVars
    /\ UNCHANGED orchVars
    /\ UNCHANGED pureVars

\* the loop ends without a return: logger.warning(...) and return []
QueryTimesOut ==
    /\ lq.pc = "poll"
    /\ ~LoopGoesOn(lq.attempts)
    /\ lq' = [lq EXCEPT !.pc = "returned", !.result = <<>>]
    /\ UNCHANGED <<sc_event, sc_result, now, lq_started>>
    /\ UNCHANGED ingestVars
    /\ UNCHANGED repVars
    /\ UNCHANGED orchVars
    /\ UNCHANGED pureVars

\* the caller has the result; the next query can be started
QueryDone ==
    /\ lq.pc = "returned"
    /\ lq' = IdleQuery
    /\ UNCHANGED <<sc_event, sc_result, now, lq_started>>
    /\ UNCHANGED ingestVars
    /\ UNCHANGED repVars
    /\ UNCHANGED orchVars
    /\ UNCHANGED pureVars

\* the steps of a function that has been called
QueryStep == QueryPoll \/ QueryPollFails \/ QueryTimesOut

QueryNext ==
    \/ \E fn \in QueryFunctions : QueryStart(fn)
    \/ \E fn \in QueryFunctions : QueryStartFails(fn)
    \/ QueryProgress
    \/ QueryPoll
    \/ QueryPollFails
    \/ QueryTimesOut
    \/ QueryDone

SpecQuery == QueryInit /\ [][QueryNext]_vars

\* a function that has been called runs its code to the end
FairSpecQuery == SpecQuery /\ WF_vars(QueryStep)

(***************************************************************************)
(* Claims about scoring (checked under SpecScore)                          *)
(***************************************************************************)
AgentTokens == { suspicious_agents[i] : i \in 1..Len(suspicious_agents) }

\* the weights of the rules of section 4.1 that apply to a dict of strings
RuleSum(e) ==
    LET st == e["status"].s
        ua == e["user_agent"].s
        m  == e["method"].s
        r  == e["resource"].s
    IN    (IF Len(st) >= 1 /\ st[1] = "4" THEN 2 ELSE 0)
        + (IF st = <<"4", "0", "4">> THEN 3 ELSE 0)
        + (IF st = <<"4", "2", "9">> THEN 5 ELSE 0)
        + (IF \E a \in AgentTokens : Contains(a, Lower(ua)) THEN 4 ELSE 0)
        + (IF Len(ua) < 10 THEN 3 ELSE 0)
        + (IF m = <<"P", "O", "S", "T">> /\ r = <<"/", "c", "r", "e", "a", "t", "e">>
           THEN 1 ELSE 0)
        + (IF \/ StartsWith(r, <<"/", "a", "d", "m", "i", "n">>)
              \/ StartsWith(r, <<"/", ".">>)
           THEN 5 ELSE 0)

\* C9: whenever scoring returns, the score is the sum of the weights of the
\* rules that apply to the event, the user-agent rule counted once even when
\* several suspicious agents match.
C9_ScoreIsRuleSum ==
    sc_result.state = "returned" => sc_result.score = RuleSum(sc_event)

\* an event scored with three suspicious agents in an upper-case user agent,
\* a 404 and an /admin resource: 2 + 3 + 4 + 5
C9_Witness ==
    /\ sc_result.state = "returned"
    /\ Cardinality({a \in AgentTokens :
                      Contains(a, Lower(sc_event["user_agent"].s))}) = 3
    /\ sc_event["status"].s = <<"4", "0", "4">>
    /\ StartsWith(sc_event["resource"].s, <<"/", "a", "d", "m", "i", "n">>)
    /\ sc_result.score = 14

\* C10: for every event, missing fields included, scoring raises no error
\* and returns an integer in 0..100.
C10_ScoringNeverRaises ==
    sc_result.state # "pending" =>
        /\ sc_result.state = "returned"
        /\ sc_result.score \in 0..100

(***************************************************************************)
(* Claims about the tracking table and the evaluator (checked under Spec)  *)
(***************************************************************************)
\* C1: whatever the interleaving of the invocations, every record counts
\* every update applied to its key and sums their scores: request_count is
\* the number of updates, abuse_score the sum of their scores.
C1_NoLostUpdate ==
    \A k \in DOMAIN abuse_table :
        /\ k \in DOMAIN applied
        /\ abuse_table[k].request_count = applied[k].n
        /\ abuse_table[k].abuse_score = applied[k].sum

\* two invocations are between their two updates at the same time, after
\* both have updated the same 5-minute record
C1_Witness ==
    \E p, q \in Invocations :
        /\ p # q
        /\ inv[p].pc = "update60" /\ inv[q].pc = "update60"
        /\ LET kp == TableKey(inv[p].event.source_ip.s,
                              get_time_window(inv[p].timestamp, 5))
               kq == TableKey(inv[q].event.source_ip.s,
                              get_time_window(inv[q].timestamp, 5))
           IN /\ kp = kq
              /\ inv[p].abuse_score # inv[q].abuse_score
              /\ abuse_table[kp].request_count >= 2
              /\ abuse_table[kp].request_count = applied[kp].n

\* C2: a record's abuse_score_range is never stale: after every update the
\* range of the updated record is the range of its accumulated abuse_score.
C2_RangeMatchesSum ==
    [][\A k \in DOMAIN abuse_table' :
          (k \notin DOMAIN abuse_table \/ abuse_table'[k] # abuse_table[k]) =>
              abuse_table'[k].abuse_score_range =
                  RangeOfSum(abuse_table'[k].abuse_score)]_vars

\* the record of an identity and a window is over the 5-minute thresholds
ShortRecordOver(ip, t) ==
    \E k \in DOMAIN abuse_table :
        /\ k = TableKey(ip, get_time_window(Iso(t), 5))
        /\ \/ abuse_table[k].request_count > ABUSE_THRESHOLD_5MIN
           \/ abuse_table[k].abuse_score > 50

LongRecordOver(ip, t) ==
    \E k \in DOMAIN abuse_table :
        /\ k = TableKey(ip, get_time_window(Iso(t), 60))
        /\ \/ abuse_table[k].request_count > ABUSE_THRESHOLD_HOUR
           \/ abuse_table[k].abuse_score > 100

\* C3: the evaluation alerts on the short-window record exactly when its
\* request_count > ABUSE_THRESHOLD_5MIN or its abuse_score > 50, and
\* otherwise alerts exactly when the long-window record has request_count >
\* ABUSE_THRESHOLD_HOUR or abuse_score > 100.
C3_EvaluateStrict ==
    [][\A p \in Invocations :
         /\ (inv[p].pc = "check5" /\ inv'[p].pc # "check5") =>
               /\ inv'[p].should_alert = ShortRecordOver(inv[p].event.source_ip.s, now)
               /\ inv'[p].pc = IF ShortRecordOver(inv[p].event.source_ip.s, now)
                               THEN "alert" ELSE "check60"
         /\ (inv[p].pc = "check60" /\ inv'[p].pc # "check60") =>
               /\ inv'[p].should_alert =
                      LongRecordOver(inv[p].event.source_ip.s, inv[p].check_now)
               /\ inv'[p].pc = IF inv'[p].should_alert THEN "alert" ELSE "metrics"
      ]_vars

\* an evaluation has answered NO-ALERT on a short-window record that sits
\* exactly on both thresholds (request_count 3, abuse_score 50)
C3_Witness ==
    \E p \in Invocations :
        /\ inv[p].pc = "metrics"
        /\ ~inv[p].should_alert
        /\ LET k == TableKey(inv[p].event.source_ip.s,
                             get_time_window(Iso(inv[p].check_now), 5))
           IN /\ k \in DOMAIN abuse_table
              /\ abuse_table[k].request_count = ABUSE_THRESHOLD_5MIN
              /\ abuse_table[k].abuse_score = 50

(***************************************************************************)
(* Claims about the reputation cache (checked under SpecRep)               *)
(***************************************************************************)
\* C6: an entry whose ttl is in the past is never returned from the cache:
\* the lookup runs the checkers again, and the put stores the new entry with
\* ttl = now + 4h and returns it with source 'lookup'.
C6_ExpiredNeverServed ==
    [][\A c \in Checkers :
         /\ ( /\ rep[c].pc = "get_cached" /\ rep'[c].pc # "get_cached"
              /\ rep[c].ip_address \in DOMAIN reputation_table
              /\ reputation_table[rep[c].ip_address].ttl < now )
            => /\ rep'[c].pc = "cache_put"
               /\ rep'[c].source # "cache"
               /\ rep'[c].reputation = perform_reputation_lookup(rep[c].ip_address)
         /\ (rep[c].pc = "cache_put" /\ rep'[c].pc # "cache_put"
                /\ rep[c].cache = "expired")
            => /\ rep'[c].source = "lookup"
               /\ rep'[c].reputation = rep[c].reputation
               /\ rep[c].ip_address \in DOMAIN reputation_table'
               /\ reputation_table'[rep[c].ip_address].ttl = now + 4 * 3600
               /\ reputation_table'[rep[c].ip_address].cached_at = now
               /\ reputation_table'[rep[c].ip_address].confidence_score =
                      rep[c].reputation.confidence_score
      ]_vars

\* a lookup that found an entry expired since before its read has returned
\* with source 'lookup' and the cache holds the entry it stored
C6_Witness ==
    \E c \in Checkers :
        /\ rep[c].pc = "done"
        /\ rep[c].source = "lookup"
        /\ rep[c].cache = "expired"
        /\ rep[c].seen_ttl < rep[c].read_at
        /\ reputation_table[rep[c].ip_address].ttl = now + 4 * 3600
        /\ reputation_table[rep[c].ip_address].ttl > rep[c].seen_ttl

\* what each checker reports for an address, a missing key being its default
CheckerResults(ip) ==
    { check_ip_patterns(ip), check_known_bad_ranges(ip), check_geolocation_risks(ip) }

Verdict(r) == "is_malicious" \in DOMAIN r /\ r.is_malicious
Confidence(r) == IF "confidence_score" \in DOMAIN r THEN r.confidence_score ELSE 0
ThreatTypes(r) == IF "threat_types" \in DOMAIN r THEN SetOf(r.threat_types) ELSE {}

\* C7: the entry a fresh lookup returns has is_malicious = the OR of the
\* checkers' verdicts and confidence_score = the maximum of their confidences.
C7_MergeOrMax ==
    \A c \in Checkers :
        (rep[c].pc = "done" /\ rep[c].source = "lookup") =>
            LET results == CheckerResults(rep[c].ip_address)
            IN /\ rep[c].reputation.is_malicious = (\E r \in results : Verdict(r))
               /\ \E r \in results :
                     rep[c].reputation.confidence_score = Confidence(r)
               /\ \A r \in results :
                     rep[c].reputation.confidence_score >= Confidence(r)

\* C8: the entry a fresh lookup returns has sources = the names of all the
\* checkers that contributed and threat_types = the union of their threat types.
C8_MergeUnion ==
    \A c \in Checkers :
        (rep[c].pc = "done" /\ rep[c].source = "lookup") =>
            LET results == CheckerResults(rep[c].ip_address)
            IN /\ SetOf(rep[c].reputation.sources) =
                      UNION { SetOf(r.sources) : r \in results }
               /\ SetOf(rep[c].reputation.threat_types) =
                      UNION { ThreatTypes(r) : r \in results }

(***************************************************************************)
(* The response orchestrator (under FairSpecOrch)                          *)
(***************************************************************************)
PlanTypes(actions) == [i \in 1..Len(actions) |-> actions[i].type]

\* C4: every run started by an ALARM record reaches COMPLETED; while it
\* executes, the actions attempted so far are the first actions of the plan,
\* each once and in plan order, whether they failed or not, and at COMPLETED
\* they are the whole plan.
C4_RunCompletes ==
    /\ [](orch.pc = "EXECUTING" =>
            orch.attempted = SubSeq(PlanTypes(orch.actions), 1, orch.i - 1))
    /\ [](orch.pc = "COMPLETED" => orch.attempted = PlanTypes(orch.actions))
    /\ (orch.pc = "RECEIVED") ~> (orch.pc = "COMPLETED")

\* a completed run whose first action failed and whose three later actions
\* were attempted all the same
C4_Witness ==
    /\ orch.pc = "COMPLETED"
    /\ orch.alarm_state = PyStr(ALARM)
    /\ orch.results.failed_actions = << PyStr("analyze_suspicious_patterns") >>
    /\ Len(orch.attempted) = 4
    /\ Len(orch.results.successful_actions) = 3

\* C5: a run that has reached COMPLETED has published exactly one summary
\* notification, whatever its results are, and a notification is published
\* only after every action of the plan has been attempted.
C5_OneNotification ==
    /\ orch.pc = "COMPLETED" => orch.published = 1
    /\ orch.published > 0 => orch.attempted = PlanTypes(orch.actions)

(***************************************************************************)
(* More claims about the tracking table and the evaluator (under Spec)     *)
(***************************************************************************)
\* C12: the ttl a record got from the update that created it is the ttl it
\* has after every later update of the same key.
C12_ExpiryFixed ==
    [][\A k \in DOMAIN abuse_table :
          k \in DOMAIN abuse_table' => abuse_table'[k].ttl = abuse_table[k].ttl
      ]_vars

\* C13: an evaluation that finds no short-window record of the identity for
\* the current window answers NO-ALERT, whatever the long-window record holds.
C13_AbsentShortNoAlert ==
    [][\A p \in Invocations :
         (/\ inv[p].pc = "check60"
          /\ inv'[p].pc # "check60"
          /\ TableKey(inv[p].event.source_ip.s,
                      get_time_window(Iso(inv[p].check_now), 5))
                 \notin DOMAIN abuse_table)
            => ~inv'[p].should_alert
      ]_vars

\* the short-window records of the hour of a long-window key
ShortKeysOf(k) ==
    { s \in DOMAIN abuse_table :
        /\ s.ip_address = k.ip_address
        /\ s.time_window.minutes = 5
        /\ s.time_window.tz = k.time_window.tz
        /\ s.time_window.start \in k.time_window.start..(k.time_window.start + 3599) }

RECURSIVE Total(_, _)
Total(keys, field) ==
    IF keys = {} THEN 0
    ELSE LET k == CHOOSE x \in keys : TRUE
         IN abuse_table[k][field] + Total(keys \ {k}, field)

LongIsTotalOfShort ==
    /\ \A k \in DOMAIN abuse_table :
          k.time_window.minutes = 60 =>
             /\ abuse_table[k].request_count = Total(ShortKeysOf(k), "request_count")
             /\ abuse_table[k].abuse_score = Total(ShortKeysOf(k), "abuse_score")
    /\ \A s \in DOMAIN abuse_table :
          s.time_window.minutes = 5 =>
             \E k \in DOMAIN abuse_table :
                 k.time_window.minutes = 60 /\ s \in ShortKeysOf(k)

C17_SetsAccumulate ==
    [][\A p \in Invocations :
         (inv[p].pc \in {"update5", "update60"} /\ inv'[p].pc # inv[p].pc) =>
            LET w == IF inv[p].pc = "update5" THEN 5 ELSE 60
                k == TableKey(inv[p].event.source_ip.s,
                              get_time_window(inv[p].timestamp, w))
                old == ItemAt(abuse_table, k)
                new == abuse_table'[k]
            IN /\ inv[p].event.status.s \in new.status_codes
               /\ inv[p].event.method.s \in new.methods
               /\ inv[p].event.resource.s \in new.resources
               /\ old.status_codes \subseteq new.status_codes
               /\ old.methods \subseteq new.methods
               /\ old.resources \subseteq new.resources
      ]_vars

(***************************************************************************)
(* Claims about the pure functions (checked under SpecPure)                *)
(***************************************************************************)
\* the interval of g minutes a second falls in, counted from midnight
Bucket(t, g) == t \div (g * 60)

\* C14: the bucket start b of a timestamp t for granularity g has
\* b <= t < b + g and is a multiple of g within the hour; two timestamps of
\* one granularity get the same key exactly when they fall in the same
\* interval; keys of different granularities differ.
C14_BucketIsFloor ==
    pf_result.fn = "get_time_window" =>
        LET c == pf_call
            r == pf_result
        IN /\ r.key1.start <= c.t1.t
           /\ c.t1.t < r.key1.start + c.w1 * 60
           /\ (r.key1.start % 3600) % (c.w1 * 60) = 0
           /\ c.w1 = c.w2 =>
                 ((r.key1 = r.key2) <=> (Bucket(c.t1.t, c.w1) = Bucket(c.t2.t, c.w2)))
           /\ c.w1 # c.w2 => r.key1 # r.key2

\* C15: sums 0..9 are low, 10..29 medium, 30..59 high, 60 and above critical.
C15_RangeBoundaries ==
    pf_result.fn = "get_abuse_score_range" =>
        LET n == pf_call.score
        IN pf_result.range =
             CASE n \in 0..9 -> "low"
               [] n \in 10..29 -> "medium"
               [] n \in 30..59 -> "high"
               [] OTHER -> "critical"

\* the function has answered on 59, the last sum that is high
C15_Witness ==
    /\ pf_result.fn = "get_abuse_score_range"
    /\ pf_call.score = 59
    /\ pf_result.range = "high"

(***************************************************************************)
(* Claims about a burst of one event (checked under SpecBurst)             *)
(***************************************************************************)
\* C11: the event {203.0.113.5, 404, empty user agent, GET, /admin/config}
\* scores 11, and the update that makes it the 25th such event of its
\* 5-minute window leaves the record with request_count 25, abuse_score 275
\* and abuse_score_range critical.
C11_BurstExample ==
    [][\A p \in Invocations :
         (inv[p].pc = "update5" /\ inv'[p].pc = "update60" /\ inv[p].event = Ev13) =>
            LET k == TableKey(IP1, get_time_window(inv[p].timestamp, 5))
            IN /\ inv[p].abuse_score = 11
               /\ abuse_table'[k].request_count = 25 =>
                     /\ abuse_table'[k].abuse_score = 275
                     /\ abuse_table'[k].abuse_score_range = "critical"
      ]_vars

(***************************************************************************)
(* More claims about the response handler (checked under SpecOrch)         *)
(***************************************************************************)
\* the records of a table whose ttl has not passed at the clock
Live(table, clock) ==
    [k \in { j \in DOMAIN table : table[j].ttl > clock } |-> table[k]]

IdentifyTypes ==
    {"identify_high_volume_ips", "identify_spam_creators", "identify_scanners"}

\* C18: a record whose ttl has passed is as if it had never been written:
\* whatever an identification step records is something it could have
\* recorded from the table without the records whose ttl has passed.
C18_ExpiredIsAbsent ==
    [][(/\ orch.pc = "EXECUTING"
        /\ orch.i <= Len(orch.actions)
        /\ orch'.attempted # orch.attempted
        /\ orch.actions[orch.i].type \in IdentifyTypes)
          => \E ips \in IdentifyOutcomes(orch.actions[orch.i].type,
                                         Live(abuse_table, now)) :
                orch'.results = ExecuteAction(orch.results, orch.actions[orch.i],
                                              ips, waf_configured)]_vars

\* C19: while a run is about to identify the spam creators, every record
\* whose accumulated abuse_score is 60 or more is in some response of the
\* 'critical' query.
C19_CriticalDiscoverable ==
    (/\ orch.pc = "EXECUTING"
     /\ orch.i <= Len(orch.actions)
     /\ orch.actions[orch.i].type = "identify_spam_creators")
       => \A k \in DOMAIN abuse_table :
             abuse_table[k].abuse_score >= 60 =>
                \E items \in Query(abuse_table, "critical", 15) :
                   \E i \in 1..Len(items) :
                      /\ items[i].ip_address = k.ip_address
                      /\ items[i].time_window = k.time_window

\* C20: a run whose alarm state is not 'ALARM' builds no plan, executes no
\* action (so reads no record and blocks nothing) and publishes nothing;
\* a run that has got further than the test was invoked with 'ALARM'.
C20_OnlyAlarmActs ==
    /\ orch.alarm_state # PyStr(ALARM) =>
          /\ orch.pc \in {"idle", "SKIPPED"}
          /\ orch.actions = <<>>
          /\ orch.attempted = <<>>
          /\ orch.results = NoResults
          /\ orch.published = 0
    /\ orch.pc \in {"RECEIVED", "PLANNED", "EXECUTING", "COMPLETED"} =>
          orch.alarm_state = PyStr(ALARM)

C20_Witness ==
    /\ orch.pc = "SKIPPED"
    /\ orch.alarm_state = PyStr(<<"O", "K">>)
    /\ orch.alarm_name # PyStr(<<>>)
    /\ orch.statusCode = 200

(***************************************************************************)
(* Claims about the plan (checked under SpecOrch)                          *)
(***************************************************************************)
\* the run holds the plan determine_response_actions returned
HasPlan == orch.pc \in {"PLANNED", "EXECUTING", "COMPLETED"}

C22_UnmatchedFallback ==
    (/\ HasPlan
     /\ orch.alarm_name.type = "str"
     /\ CategoryActions(Lower(orch.alarm_name.s)) = <<>>)
       => { orch.actions[i].type : i \in 1..Len(orch.actions) } =
             {"increase_logging_detail", "alert_admins"}

\* the category tokens and the action lists of the policy table
PolicyTokens ==
    { <<"h", "i", "g", "h", "-", "v", "o", "l", "u", "m", "e">>,
      <<"u", "r", "l", "-", "c", "r", "e", "a", "t", "i", "o", "n">>,
      <<"s", "c", "a", "n", "n", "e", "r">>,
      <<"s", "u", "s", "p", "i", "c", "i", "o", "u", "s", "-", "p", "a", "t",
        "t", "e", "r", "n">> }

PolicyList(token) ==
    CASE token = <<"h", "i", "g", "h", "-", "v", "o", "l", "u", "m", "e">> ->
            <<"identify_high_volume_ips", "temporary_rate_limit", "alert_admins">>
      [] token = <<"u", "r", "l", "-", "c", "r", "e", "a", "t", "i", "o", "n">> ->
            <<"identify_spam_creators", "block_suspicious_ips", "alert_admins">>
      [] token = <<"s", "c", "a", "n", "n", "e", "r">> ->
            <<"identify_scanners", "block_scanner_ips", "alert_security_team">>
      [] OTHER ->
            <<"analyze_suspicious_patterns", "temporary_monitoring_increase",
              "alert_admins">>

\* C23: the plan of an alarm whose name contains a category token is the
\* action list of a category whose token the name contains, followed by the
\* default action.
C23_PolicyTable ==
    (HasPlan /\ orch.alarm_name.type = "str") =>
        LET name == Lower(orch.alarm_name.s)
            matching == { t \in PolicyTokens : Contains(t, name) }
        IN matching # {} =>
              \E t \in matching :
                 PlanTypes(orch.actions) =
                    PolicyList(t) \o <<"increase_logging_detail">>

(***************************************************************************)
(* Claims about the executor (checked under SpecOrch)                      *)
(***************************************************************************)
BlockTypes == {"block_suspicious_ips", "block_scanner_ips"}

\* the run executes its action number orch.i in this step
Executes(types) ==
    /\ orch.pc = "EXECUTING"
    /\ orch.i <= Len(orch.actions)
    /\ orch.actions[orch.i].type \in types
    /\ orch'.attempted = Append(orch.attempted, orch.actions[orch.i].type)

\* the first five entries of every identification result the run holds
Identified(results) ==
    UNION { { Take(results[f], 5)[j] : j \in 1..Len(Take(results[f], 5)) } :
              f \in DOMAIN results \cap
                    {"high_volume_ips", "spam_creator_ips", "scanner_ips"} }

\* C24: a block action appends at most 5 entries to ips_blocked, each of
\* them one of the first 5 entries of an identification result recorded
\* earlier in the same run.
C24_BlocksOnlyIdentified ==
    [][Executes(BlockTypes) =>
          LET before == orch.results.ips_blocked
              after == orch'.results.ips_blocked
          IN /\ Len(after) >= Len(before)
             /\ SubSeq(after, 1, Len(before)) = before
             /\ Len(after) - Len(before) <= 5
             /\ \A j \in Len(before) + 1..Len(after) :
                   after[j] \in Identified(orch.results)]_vars

C24_Witness ==
    /\ orch.pc = "COMPLETED"
    /\ orch.results.ips_blocked # <<>>
    /\ "block_scanner_ips" \in
          { orch.attempted[j] : j \in 1..Len(orch.attempted) }

\* C25: a block action with nothing to block, or with no firewall
\* configured, leaves ips_blocked and failed_actions as they are and is
\* recorded in the results.
C25_SkippedBlockRecorded ==
    [][(/\ Executes(BlockTypes)
        /\ IpsToBlock(orch.results) = <<>> \/ ~waf_configured)
          => /\ orch'.results.ips_blocked = orch.results.ips_blocked
             /\ orch'.results.failed_actions = orch.results.failed_actions
             /\ orch'.results # orch.results]_vars

KnownTypes ==
    IdentifyTypes \cup BlockTypes \cup
       {"temporary_rate_limit", "alert_admins", "alert_security_team",
        "increase_logging_detail", "temporary_monitoring_increase"}

AllTypes == KnownTypes \cup {"analyze_suspicious_patterns"}

NoFailed(results) == [results EXCEPT !.failed_actions = <<>>]

\* C27: an action of a type the executor does not know is appended to
\* failed_actions and changes nothing else, and the loop goes on; what an
\* action of a known type does is what it does when failed_actions is empty;
\* a run completes only when every action of its plan has been attempted.
C27_UnknownDoesNotBlock ==
    [][/\ (Executes(AllTypes) /\ orch.actions[orch.i].type \notin KnownTypes) =>
             /\ orch'.results = Failed(orch.results, orch.actions[orch.i].type)
             /\ orch'.i = orch.i + 1
             /\ orch'.pc = "EXECUTING"
       /\ (Executes(AllTypes) /\ orch.actions[orch.i].type \in KnownTypes) =>
             \E ips \in IdentifyOutcomes(orch.actions[orch.i].type, abuse_table) :
                /\ orch'.results =
                      ExecuteAction(orch.results, orch.actions[orch.i], ips,
                                    waf_configured)
                /\ NoFailed(orch'.results) =
                      NoFailed(ExecuteAction(NoFailed(orch.results),
                                             orch.actions[orch.i], ips,
                                             waf_configured))
       /\ (orch.pc = "EXECUTING" /\ orch'.pc = "COMPLETED") =>
             orch.attempted = PlanTypes(orch.actions)]_vars

C27_Witness ==
    /\ orch.pc = "COMPLETED"
    /\ orch.attempted = <<"analyze_suspicious_patterns",
                          "temporary_monitoring_increase", "alert_admins",
                          "increase_logging_detail">>
    /\ orch.results.failed_actions = << PyStr("analyze_suspicious_patterns") >>
    /\ orch.results.successful_actions =
          << PyStr("temporary_monitoring_increase"), PyStr("alert_admins"),
             PyStr("increase_logging_detail") >>
    /\ orch.published = 1

(***************************************************************************)
(* Claims about failures in the ingestion path (checked under Spec)        *)
(***************************************************************************)
\* the two records of the event of an invocation hold its update
Tracked(i) ==
    \A w \in {5, 60} :
       LET key == TableKey(i.event.source_ip.s, get_time_window(i.timestamp, w))
       IN /\ key \in DOMAIN abuse_table
          /\ abuse_table[key].request_count >= 1
          /\ abuse_table[key].abuse_score >= i.abuse_score

\* C28: when the handler calls send_abuse_alert or publish_abuse_metrics the
\* two records already hold the event's update; whether the call goes
\* through or fails, the table is left as it is, the handler goes on to the
\* next call and returns its 200 result.
C28_FailuresDoNotUndo ==
    [][\A p \in Invocations :
          (inv[p].pc \in {"alert", "metrics"} /\ inv'[p].pc # inv[p].pc) =>
             /\ Tracked(inv[p])
             /\ abuse_table' = abuse_table
             /\ applied' = applied
             /\ inv[p].pc = "alert" => inv'[p].pc = "metrics"
             /\ inv[p].pc = "metrics" =>
                   inv'[p].pc = "done" /\ inv'[p].statusCode = 200]_vars

\* an alert was due, neither the alert nor the metrics went through, and
\* the invocation returned 200 with its update in the table
C28_Witness ==
    /\ started = 1
    /\ inv[1].pc = "done"
    /\ inv[1].should_alert
    /\ inv[1].statusCode = 200
    /\ sns_alerts = 0
    /\ metrics_published = 0
    /\ Tracked(inv[1])

\* C29: an invocation whose event has no source_ip or no status returns a
\* client-error result (4xx) and has changed no record, sent no alert and
\* published no metric.
C29_MalformedRejected ==
    [][\A p \in Invocations :
          (/\ inv[p].pc = "idle"
           /\ inv'[p].pc # "idle"
           /\ \/ "source_ip" \notin DOMAIN inv'[p].event
              \/ "status" \notin DOMAIN inv'[p].event)
             => /\ inv'[p].pc = "done"
                /\ inv'[p].statusCode \in 400..499
                /\ abuse_table' = abuse_table
                /\ sns_alerts' = sns_alerts
                /\ metrics_published' = metrics_published]_vars

(***************************************************************************)
(* Claims about a failing checker (checked under SpecRep)                  *)
(***************************************************************************)
\* a pattern of check_ip_patterns raises on the address and none matches
PatternCheckFails(ip_address) ==
    LET o == Split(ip_address)
    IN /\ Len(o) = 4
       /\ \E i \in 1..4 : SuspiciousPattern(i, o) = "raise"
       /\ \A i \in 1..4 : SuspiciousPattern(i, o) # "match"

\* C30: when a pattern of check_ip_patterns raises, the lookup still returns
\* 200 with an entry that holds the contributions of the two other checkers
\* merged over the defaults (nothing but its source name from the failing
\* one), and that entry is in the cache when the lookup returns.
C30_FailingCheckerDegrades ==
    [][\A c \in Checkers :
          (/\ rep[c].pc = "cache_put"
           /\ rep'[c].pc # "cache_put"
           /\ PatternCheckFails(rep[c].ip_address))
             => LET ip == rep[c].ip_address
                    defaults == [is_malicious |-> FALSE, threat_types |-> <<>>,
                                 confidence_score |-> 0, sources |-> <<>>]
                    others == DictUpdate(
                                 DictUpdate(
                                    DictUpdate(defaults,
                                               [sources |-> <<"pattern_check">>]),
                                    check_known_bad_ranges(ip)),
                                 check_geolocation_risks(ip))
                IN /\ rep[c].reputation = others
                   /\ rep'[c].reputation = others
                   /\ rep'[c].pc = "done"
                   /\ rep'[c].statusCode = 200
                   /\ rep'[c].source = "lookup"
                   /\ ip \in DOMAIN reputation_table'
                   /\ reputation_table'[ip] = CacheItem(others, now)]_vars

(***************************************************************************)
(* More claims about the reputation cache (checked under SpecRep)          *)
(***************************************************************************)
\* C31: a lookup that reads an entry whose ttl has not passed returns 200
\* with source 'cache' and the stored is_malicious, confidence_score,
\* threat_types and sources, runs no checker and writes nothing.
C31_CachedServed ==
    [][\A c \in Checkers :
          (/\ rep[c].pc = "get_cached"
           /\ rep'[c].pc # "get_cached"
           /\ rep[c].ip_address \in DOMAIN reputation_table
           /\ reputation_table[rep[c].ip_address].ttl > now)
             => LET item == reputation_table[rep[c].ip_address]
                IN /\ rep'[c].pc = "done"
                   /\ reputation_table' = reputation_table
                   /\ rep'[c].statusCode = 200
                   /\ rep'[c].source = "cache"
                   /\ rep'[c].reputation.is_malicious = item.is_malicious
                   /\ rep'[c].reputation.confidence_score = item.confidence_score
                   /\ rep'[c].reputation.threat_types = item.threat_types
                   /\ rep'[c].reputation.sources = item.sources]_vars

\* the verdict of the checkers on an address
Verdict39(ip_address) ==
    [is_malicious |-> perform_reputation_lookup(ip_address).is_malicious,
     confidence_score |-> perform_reputation_lookup(ip_address).confidence_score]

\* C39: a lookup that started on a cache with no valid entry of its address
\* while another lookup of that address was under way returns 200 with the
\* checkers' verdict, and when it returns the cache holds an entry of the
\* address that has not expired and carries that verdict.
C39_ConcurrentLookupsAgree ==
    [][\A c \in Checkers :
          (/\ rep[c].pc # "done"
           /\ rep'[c].pc = "done"
           /\ rep'[c].cold
           /\ rep'[c].concurrent)
             => LET ip == rep[c].ip_address
                IN /\ rep'[c].statusCode = 200
                   /\ rep'[c].reputation.is_malicious = Verdict39(ip).is_malicious
                   /\ rep'[c].reputation.confidence_score =
                         Verdict39(ip).confidence_score
                   /\ ip \in DOMAIN reputation_table'
                   /\ reputation_table'[ip].ttl > now
                   /\ reputation_table'[ip].is_malicious = Verdict39(ip).is_malicious
                   /\ reputation_table'[ip].confidence_score =
                         Verdict39(ip).confidence_score]_vars

C33_AlertsRepeat ==
    [][/\ \A p \in Invocations :
             (/\ inv[p].pc = "check5"
              /\ inv'[p].pc # "check5"
              /\ ShortRecordOver(inv[p].event.source_ip.s, now))
                 => /\ inv'[p].should_alert
                    /\ inv'[p].pc = "alert"
       /\ \A k \in DOMAIN abuse_table :
             /\ k \in DOMAIN abuse_table'
             /\ abuse_table'[k].request_count >= abuse_table[k].request_count
             /\ abuse_table'[k].abuse_score >= abuse_table[k].abuse_score]_vars

\* one invocation has alerted on an identity's current 5-minute record and a
\* later event of the same identity, evaluated in the same window, alerts again
C33_Witness ==
    \E p, q \in Invocations :
        /\ p # q
        /\ inv[p].pc \in {"metrics", "done"}
        /\ inv[p].should_alert
        /\ inv[q].pc = "alert"
        /\ inv[q].should_alert
        /\ inv[p].event.source_ip = inv[q].event.source_ip
        /\ get_time_window(Iso(inv[p].check_now), 5)
              = get_time_window(Iso(inv[q].check_now), 5)
        /\ ShortRecordOver(inv[q].event.source_ip.s, inv[q].check_now)


\* the record that the event of invocation p wrote for its own window of w
\* minutes is over the thresholds of that window
OwnRecordOver(p, w) ==
    LET k == TableKey(inv[p].event.source_ip.s, get_time_window(inv[p].timestamp, w))
    IN /\ k \in DOMAIN abuse_table
       /\ IF w = 5
          THEN \/ abuse_table[k].request_count > ABUSE_THRESHOLD_5MIN
               \/ abuse_table[k].abuse_score > 50
          ELSE \/ abuse_table[k].request_count > ABUSE_THRESHOLD_HOUR
               \/ abuse_table[k].abuse_score > 100

\* C35: within one invocation the evaluation reads the records that the
\* event's update wrote: an invocation whose evaluation ends with NO-ALERT has
\* neither its own 5-minute record nor its own hourly record over a threshold,
\* whatever the event's timestamp is relative to the wall clock.
C35_EvaluatesOwnRecords ==
    [][\A p \in Invocations :
         (inv[p].pc = "check60" /\ inv'[p].pc = "metrics")
            => /\ ~OwnRecordOver(p, 5)
               /\ ~OwnRecordOver(p, 60)]_vars


(***************************************************************************)
(* More claims about the response run (checked under SpecOrch)             *)
(***************************************************************************)
\* C36: every action type of every plan is a type the executor handles: no
\* plan holds an action that the executor records in failed_actions as an
\* unknown action type.
C36_PlannedTypesKnown ==
    HasPlan =>
        \A i \in 1..Len(orch.actions) :
            /\ orch.actions[i].type \in KnownTypes
            /\ UnknownAction(NoResults, orch.actions[i].type)
                  # ExecuteAction(NoResults, orch.actions[i], <<>>, FALSE)

\* the identification whose result a block action is planned after
IdentifyOf(block_type) ==
    IF block_type = "block_suspicious_ips" THEN "identify_spam_creators"
    ELSE "identify_scanners"

\* the entry of the results an identification writes
ResultKeyOf(identify_type) ==
    IF identify_type = "identify_spam_creators" THEN "spam_creator_ips"
    ELSE "scanner_ips"

\* C37: in every plan each block_* action comes after the identify_* action
\* whose result it uses (block_suspicious_ips after identify_spam_creators,
\* block_scanner_ips after identify_scanners), and when a block action runs
\* that identification has been attempted and its result is in the results.
C37_IdentifyBeforeBlock ==
    /\ HasPlan =>
          \A i \in 1..Len(orch.actions) :
              orch.actions[i].type \in BlockTypes =>
                 \E j \in 1..(i - 1) :
                    orch.actions[j].type = IdentifyOf(orch.actions[i].type)
    /\ (/\ orch.pc = "EXECUTING"
        /\ orch.i <= Len(orch.actions)
        /\ orch.actions[orch.i].type \in BlockTypes)
          => /\ \E j \in 1..Len(orch.attempted) :
                   orch.attempted[j] = IdentifyOf(orch.actions[orch.i].type)
             /\ ResultKeyOf(IdentifyOf(orch.actions[orch.i].type))
                   \in DOMAIN orch.results

\* a run has identified the spam creators and then attempted the block
C37_Witness ==
    /\ orch.pc = "EXECUTING"
    /\ Len(orch.attempted) = 2
    /\ orch.attempted[1] = "identify_spam_creators"
    /\ orch.attempted[2] = "block_suspicious_ips"
    /\ "spam_creator_ips" \in DOMAIN orch.results

\* the elements of a list
Elements(list) == { list[j] : j \in 1..Len(list) }

\* C38: at every point of a run successful_actions and failed_actions are
\* disjoint, neither holds an action twice, every entry is an action that has
\* been attempted, their combined length is at most the number of actions
\* attempted so far, and at completion at most the length of the plan.
C38_OutcomeListsDisjoint ==
    LET ok == orch.results.successful_actions
        ko == orch.results.failed_actions
    IN /\ Elements(ok) \cap Elements(ko) = {}
       /\ Cardinality(Elements(ok)) = Len(ok)
       /\ Cardinality(Elements(ko)) = Len(ko)
       /\ \A e \in Elements(ok) \cup Elements(ko) :
             e.type = "str" /\ e.s \in Elements(orch.attempted)
       /\ Len(ok) + Len(ko) <= Len(orch.attempted)
       /\ orch.pc = "COMPLETED" => Len(ok) + Len(ko) <= Len(orch.actions)

\* a run in progress holds a failed action and a successful one
C38_Witness ==
    /\ orch.pc = "EXECUTING"
    /\ orch.results.failed_actions # <<>>
    /\ orch.results.successful_actions # <<>>
    /\ Len(orch.attempted) < Len(orch.actions)

\* the identity an entry of ips_blocked stands for
BlockedIdentity(e) == IF e.type = "dict" THEN e.d.ip ELSE e.s

\* C40: within a run ips_blocked holds each identity at most once, also when
\* the identification result holds several records of the same identity.
C40_BlockedOnce ==
    \A i, j \in 1..Len(orch.results.ips_blocked) :
        i # j => BlockedIdentity(orch.results.ips_blocked[i])
                    # BlockedIdentity(orch.results.ips_blocked[j])


(***************************************************************************)
(* Claims about the log query loop (checked under SpecQuery)               *)
(***************************************************************************)
\* C34: a poll that has seen the status Complete, Failed or Cancelled is the
\* last poll of the call; a call makes at most 30 polls; a call returns rows
\* only when its last poll saw Complete, and returns the empty result when it
\* saw Failed or Cancelled, when it timed out and when a request raised.
C34_PollLoopStops ==
    [][/\ (lq.pc = "poll" /\ lq.status \in {"Complete", "Failed", "Cancelled"})
            => lq'.polls = lq.polls
       /\ lq'.polls <= 30
       /\ (lq'.pc = "returned" /\ lq'.result # <<>>) => lq'.status = "Complete"
       /\ (lq'.pc = "returned" /\ lq'.status # "Complete") => lq'.result = <<>>]_vars

=============================================================================
